---------------------------- MODULE Spec2Model ----------------------------
(***************************************************************************)
(* Model of the resume parser (src/utils/parser.py).                       *)
(*                                                                         *)
(* A Python str is modelled as a sequence of Unicode code points, so       *)
(* "Did X" is <<68, 105, 100, 32, 88>>.  The character classes below are   *)
(* those of CPython 3 (str.isspace, str.isalpha, re's \s \d \w) and are    *)
(* exact for every code point below 256 and for the white space and        *)
(* non-BMP code points named here; the input pools stay inside that range. *)
(*                                                                         *)
(* The functions of the parser are operators.  Five specifications call    *)
(* them on inputs drawn from small pools: SpecClean (clean_text applied    *)
(* twice), SpecPhone (extract_phone), SpecName (extract_name with a        *)
(* recognizer), SpecSection (the loop of _extract_section, one line per    *)
(* step) and SpecParse (parse_resume, from the extension test to the       *)
(* record).  The variables of the other specifications stay "off".         *)
(***************************************************************************)
EXTENDS Integers, Sequences, FiniteSets, TLC

VARIABLES
    \* clean_text called on its own result
    ctPc, ctText, ctCleaned, ctRecleaned,
    \* extract_phone called on a text
    phPc, phText, phResult,
    \* extract_name called on a text, with the recognizer nlp
    nmPc, nmText, nmNlp, nmResult,
    \* _extract_section scanning the lines of a text: the lines, the keywords of
    \* the section, the index of the next line, and the locals of the loop
    secPc, secLines, secKeywords, secIdx, in_section, empty_line_count,
    section_content, secResult,
    \* parse_resume: the arguments, the libraries and the recognizer the module
    \* loaded, the functions called so far, and the locals
    prPc, prExt, prFile, prJob, prPdfReader, prDocument, prNlp, prCalls,
    prRawText, prCleanedText, prParsed, prError,
    \* one extractor called on a text: the text, the second argument if the
    \* function has one, and the value returned
    fnPc, fnText, fnArg, fnResult,
    \* parse_resume invocations running at the same time, and the module's
    \* globals SKILLS_DB and nlp they share
    invocations, sharedSkillsDb, sharedNlp,
    \* upload_resume handling requests: the handlers, the files in the upload
    \* folder, the rows of the resumes table and the largest id the table has
    \* given (the table's entry in sqlite_sequence)
    handlers, uploads, resumes, sqlite_sequence

varsClean == <<ctPc, ctText, ctCleaned, ctRecleaned>>
varsPhone == <<phPc, phText, phResult>>
varsName == <<nmPc, nmText, nmNlp, nmResult>>
varsSection ==
    <<secPc, secLines, secKeywords, secIdx, in_section, empty_line_count,
      section_content, secResult>>
varsParse ==
    <<prPc, prExt, prFile, prJob, prPdfReader, prDocument, prNlp, prCalls,
      prRawText, prCleanedText, prParsed, prError>>
varsCall == <<fnPc, fnText, fnArg, fnResult>>
varsShared == <<invocations, sharedSkillsDb, sharedNlp>>
varsUpload == <<handlers, uploads, resumes, sqlite_sequence>>
vars == <<varsClean, varsPhone, varsName, varsSection, varsParse, varsCall, varsShared, varsUpload>>

---------------------------------------------------------------------------
\* Characters

TAB == 9
LF == 10
CR == 13
SPACE == 32

\* str.isspace() and the regex class \s
Whitespace ==
    {9, 10, 11, 12, 13, 28, 29, 30, 31, 32, 133, 160, 5760} \cup (8192..8202)
        \cup {8232, 8233, 8239, 8287, 12288}

IsSpace(c) == c \in Whitespace

\* the regex class \d
IsDigit(c) == c >= 48 /\ c <= 57

IsAsciiUpper(c) == c >= 65 /\ c <= 90
IsAsciiLower(c) == c >= 97 /\ c <= 122

\* the regex class [A-Za-z]
IsAsciiAlpha(c) == IsAsciiUpper(c) \/ IsAsciiLower(c)

\* str.isalpha()
IsAlpha(c) ==
    \/ IsAsciiAlpha(c)
    \/ c \in {170, 181, 186}
    \/ (c >= 192 /\ c <= 255 /\ c \notin {215, 247})
    \/ c \in {304, 305, 383, 8490}

\* the regex class \w
IsWord(c) ==
    \/ IsAlpha(c)
    \/ IsDigit(c)
    \/ c = 95
    \/ c \in {178, 179, 185, 188, 189, 190}

\* str.lower() of one character
LowerChar(c) ==
    IF IsAsciiUpper(c) \/ (c >= 192 /\ c <= 222 /\ c # 215) THEN c + 32 ELSE c

\* str.upper() of one ASCII character
UpperChar(c) == IF IsAsciiLower(c) THEN c - 32 ELSE c

Lower(s) == [i \in 1..Len(s) |-> LowerChar(s[i])]
Upper(s) == [i \in 1..Len(s) |-> UpperChar(s[i])]

---------------------------------------------------------------------------
\* Strings

Min(a, b) == IF a <= b THEN a ELSE b
Max(a, b) == IF a >= b THEN a ELSE b

\* s[i-1:] for a 1-based i
From(s, i) == SubSeq(s, i, Len(s))

\* the least and the greatest element of a non-empty set of integers
Least(S) == CHOOSE k \in S : \A j \in S : k <= j
Greatest(S) == CHOOSE k \in S : \A j \in S : k >= j

\* the indices of s, in order
Indices(s) == [i \in 1..Len(s) |-> i]

\* the first index >= i of s whose character is not white space, Len(s)+1 if none
SkipSpace(s, i) == Least({k \in i..Len(s) : ~IsSpace(s[k])} \cup {Max(i, Len(s) + 1)})

\* the last index <= j of s whose character is not white space, 0 if none
SkipSpaceBack(s, j) == Greatest({k \in 1..j : ~IsSpace(s[k])} \cup {Min(j, 0)})

\* str.strip()
Strip(s) == SubSeq(s, SkipSpace(s, 1), SkipSpaceBack(s, Len(s)))

\* the first index >= i of s holding character c, Len(s)+1 if none
IndexOf(s, c, i) == Least({k \in i..Len(s) : s[k] = c} \cup {Max(i, Len(s) + 1)})

\* str.split(c) for a single separator character c: the pieces between the
\* occurrences of c
Split(s, c) ==
    LET at == SelectSeq(Indices(s), LAMBDA i : s[i] = c)
    IN  [k \in 1..(Len(at) + 1) |->
            SubSeq(s, IF k = 1 THEN 1 ELSE at[k - 1] + 1,
                      IF k > Len(at) THEN Len(s) ELSE at[k] - 1)]

\* sep.join(parts)
RECURSIVE Join(_, _)
Join(parts, sep) ==
    IF parts = <<>> THEN <<>>
    ELSE IF Len(parts) = 1 THEN parts[1]
    ELSE LET h == Len(parts) \div 2
         IN  Join(SubSeq(parts, 1, h), sep) \o sep
                 \o Join(SubSeq(parts, h + 1, Len(parts)), sep)

\* the sequences over S of length at most n
SeqsUpTo(S, n) == UNION {[1..k -> S] : k \in 0..n}

---------------------------------------------------------------------------
\* Regular expressions (Python's re: leftmost match, alternatives and greedy
\* repetitions tried in the order a backtracking matcher tries them)

\* "as often as possible"
INF == 1000000

\* one character of the set S / one character outside S
Set(S) == [op |-> "set", set |-> S]
NotSet(S) == [op |-> "nset", set |-> S]
\* r{lo,hi}, greedy
Rep(r, lo, hi) == [op |-> "rep", r |-> r, lo |-> lo, hi |-> hi]
Opt(r) == Rep(r, 0, 1)
Star(r) == Rep(r, 0, INF)
Plus(r) == Rep(r, 1, INF)
\* r1 r2 ... / r1|r2|...
Cat(rs) == [op |-> "cat", rs |-> rs]
Alt(rs) == [op |-> "alt", rs |-> rs]
\* \b, (?<![S]) and (?![S])
WordBoundary == [op |-> "wb"]
NotBehind(S) == [op |-> "nbehind", set |-> S]
NotAhead(S) == [op |-> "nahead", set |-> S]

\* the characters re.IGNORECASE lets the pattern character c match
FoldSet(c) ==
    {c, LowerChar(c), UpperChar(c)}
        \cup (IF c \in {105, 73} THEN {304, 305} ELSE {})
        \cup (IF c \in {115, 83} THEN {383} ELSE {})
        \cup (IF c \in {107, 75} THEN {8490} ELSE {})

\* a literal string, and a literal string under re.IGNORECASE
Lit(s) == Cat([i \in 1..Len(s) |-> Set({s[i]})])
LitI(s) == Cat([i \in 1..Len(s) |-> Set(FoldSet(s[i]))])

DigitSet == 48..57
AsciiAlphaSet == (65..90) \cup (97..122)
AsciiAlnumSet == AsciiAlphaSet \cup DigitSet
\* \w: the word characters below 256 and the letters that fold to ASCII
WordSet == {c \in (0..255) \cup {304, 305, 383, 8490} : IsWord(c)}

\* s without the later repetitions of a value
Dedupe(s) ==
    LET first == SelectSeq(Indices(s), LAMBDA i : \A j \in 1..(i - 1) : s[j] # s[i])
    IN  [k \in 1..Len(first) |-> s[first[k]]]

MatchesSet(r, s, pos) ==
    /\ pos >= 1
    /\ pos <= Len(s)
    /\ IF r.op = "set" THEN s[pos] \in r.set ELSE s[pos] \notin r.set

\* how many characters from pos on match the one-character expression r, at most hi
SetRun(r, s, pos, hi) ==
    Min(hi, Least({k \in pos..Len(s) : ~MatchesSet(r, s, k)} \cup {Max(pos, Len(s) + 1)}) - pos)

\* <<pos + n, pos + n - 1, ..., pos + lo>>
CountDown(pos, n, lo) == [i \in 1..(n - lo + 1) |-> pos + n - i + 1]

IsWordAt(s, pos) == pos >= 1 /\ pos <= Len(s) /\ IsWord(s[pos])

\* Ends(r, s, pos): the positions at which a match of r that starts at pos can end
\* (the index after its last character), in the order of the matcher's preference
RECURSIVE Ends(_, _, _)
RECURSIVE EndsFrom(_, _, _)
RECURSIVE CatEnds(_, _, _, _)
RECURSIVE AltEnds(_, _, _, _)
RECURSIVE RepEnds(_, _, _, _)
RECURSIVE RepEach(_, _, _, _)

\* the ends of r from each of the start positions, in order
EndsFrom(r, s, starts) ==
    IF starts = <<>> THEN <<>>
    ELSE IF Len(starts) = 1 THEN Ends(r, s, starts[1])
    ELSE LET h == Len(starts) \div 2
         IN  EndsFrom(r, s, SubSeq(starts, 1, h))
                 \o EndsFrom(r, s, SubSeq(starts, h + 1, Len(starts)))

CatEnds(rs, i, s, starts) ==
    IF i > Len(rs) \/ starts = <<>> THEN starts
    ELSE CatEnds(rs, i + 1, s, Dedupe(EndsFrom(rs[i], s, starts)))

AltEnds(rs, i, s, pos) ==
    IF i > Len(rs) THEN <<>>
    ELSE Ends(rs[i], s, pos) \o AltEnds(rs, i + 1, s, pos)

RepEnds(r, s, pos, count) ==
    LET once == IF count < r.hi
                THEN SelectSeq(Ends(r.r, s, pos), LAMBDA e : e > pos)
                ELSE <<>>
        more == RepEach(r, s, once, count + 1)
        stop == IF count >= r.lo THEN <<pos>> ELSE <<>>
    IN  Dedupe(more \o stop)

\* the ends of the repetition r continued from each of the positions, in order
RepEach(r, s, starts, count) ==
    IF starts = <<>> THEN <<>>
    ELSE RepEnds(r, s, starts[1], count) \o RepEach(r, s, Tail(starts), count)

Ends(r, s, pos) ==
    CASE r.op \in {"set", "nset"} ->
            IF MatchesSet(r, s, pos) THEN <<pos + 1>> ELSE <<>>
      [] r.op = "wb" ->
            IF IsWordAt(s, pos - 1) # IsWordAt(s, pos) THEN <<pos>> ELSE <<>>
      [] r.op = "nbehind" ->
            IF pos >= 2 /\ s[pos - 1] \in r.set THEN <<>> ELSE <<pos>>
      [] r.op = "nahead" ->
            IF pos <= Len(s) /\ s[pos] \in r.set THEN <<>> ELSE <<pos>>
      [] r.op = "cat" -> CatEnds(r.rs, 1, s, <<pos>>)
      [] r.op = "alt" -> Dedupe(AltEnds(r.rs, 1, s, pos))
      [] r.op = "rep" ->
            IF r.r.op \in {"set", "nset"}
            THEN LET n == SetRun(r.r, s, pos, r.hi)
                 IN  IF n >= r.lo THEN CountDown(pos, n, r.lo) ELSE <<>>
            ELSE RepEnds(r, s, pos, 0)

NoMatch == [found |-> FALSE, start |-> 0, end |-> 0]

\* re.match(r, s): the match of r at the start of s
Match(r, s) ==
    LET es == Ends(r, s, 1)
    IN  IF es = <<>> THEN NoMatch ELSE [found |-> TRUE, start |-> 1, end |-> es[1]]

\* the first match of r in s that starts at position pos or later
SearchFrom(r, s, pos) ==
    LET starts == {p \in pos..(Len(s) + 1) : Ends(r, s, p) # <<>>}
    IN  IF starts = {} THEN NoMatch
        ELSE [found |-> TRUE, start |-> Least(starts), end |-> Ends(r, s, Least(starts))[1]]

\* re.search(r, s)
Search(r, s) == SearchFrom(r, s, 1)

\* the text of a match
Matched(s, m) == SubSeq(s, m.start, m.end - 1)

\* re.findall(r, s) for a pattern without groups: the texts of the
\* non-overlapping matches, left to right
RECURSIVE FindAllFrom(_, _, _)
FindAllFrom(r, s, pos) ==
    LET m == SearchFrom(r, s, pos)
    IN  IF ~m.found THEN <<>>
        ELSE <<Matched(s, m)>>
                 \o FindAllFrom(r, s, IF m.end > m.start THEN m.end ELSE m.end + 1)

FindAll(r, s) == FindAllFrom(r, s, 1)

\* re.sub(r'\s+', ' ', s)
CollapseSpace(s) ==
    LET kept == SelectSeq(Indices(s), LAMBDA i : ~(IsSpace(s[i]) /\ i > 1 /\ IsSpace(s[i - 1])))
    IN  [k \in 1..Len(kept) |-> IF IsSpace(s[kept[k]]) THEN SPACE ELSE s[kept[k]]]

---------------------------------------------------------------------------
\* clean_text

\* the characters the pattern [^\x09\x0A\x0D\x20-\x7E\u00A0-\uFFFF] leaves alone
IsKept(c) ==
    \/ c \in {TAB, LF, CR}
    \/ (c >= 32 /\ c <= 126)
    \/ (c >= 160 /\ c <= 65535)

ReplaceNonPrintable(t) == [i \in 1..Len(t) |-> IF IsKept(t[i]) THEN t[i] ELSE SPACE]

\* text.replace('\r\n', '\n').replace('\r', '\n')
\* every CR LF becomes LF (the LF after a CR goes), then every CR becomes LF
NormalizeLineEndings(t) ==
    LET kept == SelectSeq(Indices(t), LAMBDA i : ~(t[i] = LF /\ i > 1 /\ t[i - 1] = CR))
    IN  [k \in 1..Len(kept) |-> IF t[kept[k]] = CR THEN LF ELSE t[kept[k]]]

\* re.sub(r'\n{3,}', '\n\n', text): of a run of 3 or more LF the first two stay
CollapseNewlines(t) ==
    LET kept == SelectSeq(Indices(t),
                          LAMBDA i : ~(t[i] = LF /\ i > 2 /\ t[i - 1] = LF /\ t[i - 2] = LF))
    IN  [k \in 1..Len(kept) |-> t[kept[k]]]

StripLines(lines) == [i \in 1..Len(lines) |-> Strip(lines[i])]

\* the loop over lines: prev_blank is set by the line before; a blank line is
\* kept only if prev_blank is not set
DropRepeatedBlank(lines) ==
    LET kept == SelectSeq(Indices(lines),
                          LAMBDA i : ~(lines[i] = <<>> /\ i > 1 /\ lines[i - 1] = <<>>))
    IN  [k \in 1..Len(kept) |-> lines[kept[k]]]

clean_text_keep_blank(text) ==
    LET t1 == ReplaceNonPrintable(text)
        t2 == NormalizeLineEndings(t1)
        t3 == CollapseNewlines(t2)
        lines == StripLines(Split(t3, LF))
    IN  Strip(Join(lines, <<LF>>))

clean_text(text) ==
    LET t1 == ReplaceNonPrintable(text)
        t2 == NormalizeLineEndings(t1)
        t3 == CollapseNewlines(t2)
        lines == StripLines(Split(t3, LF))
        cleaned == DropRepeatedBlank(lines)
    IN  Strip(Join(cleaned, <<LF>>))

---------------------------------------------------------------------------
\* The sentinel of a field that was not found: "Not Found"
NotFound == <<78, 111, 116, 32, 70, 111, 117, 110, 100>>

---------------------------------------------------------------------------
\* extract_phone

\* [\s\-\.]
PhoneSep == Set(Whitespace \cup {45, 46})
Digit == Set(DigitSet)

\* \+\d{1,3}[\s\-\.]?\(?\d{1,4}\)?[\s\-\.]?\d{3,5}[\s\-\.]?\d{4,6}
PhoneInternational ==
    Cat(<<Set({43}), Rep(Digit, 1, 3), Opt(PhoneSep), Opt(Set({40})),
          Rep(Digit, 1, 4), Opt(Set({41})), Opt(PhoneSep), Rep(Digit, 3, 5),
          Opt(PhoneSep), Rep(Digit, 4, 6)>>)

\* \(\d{3}\)[\s\-\.]?\d{3}[\s\-\.]?\d{4}
PhoneParenthesized ==
    Cat(<<Set({40}), Rep(Digit, 3, 3), Set({41}), Opt(PhoneSep), Rep(Digit, 3, 3),
          Opt(PhoneSep), Rep(Digit, 4, 4)>>)

\* \b\d{3}[\s\-\.]\d{3}[\s\-\.]\d{4}\b
PhoneTriplets ==
    Cat(<<WordBoundary, Rep(Digit, 3, 3), PhoneSep, Rep(Digit, 3, 3), PhoneSep,
          Rep(Digit, 4, 4), WordBoundary>>)

\* \b[6-9]\d{9}\b
PhoneTenDigits == Cat(<<WordBoundary, Set(54..57), Rep(Digit, 9, 9), WordBoundary>>)

\* \b\d{10,15}\b
PhoneDigitRun == Cat(<<WordBoundary, Rep(Digit, 10, 15), WordBoundary>>)

PhonePatterns ==
    <<PhoneInternational, PhoneParenthesized, PhoneTriplets, PhoneTenDigits,
      PhoneDigitRun>>

\* re.sub(r'\D', '', phone)
DigitsOf(s) == SelectSeq(s, IsDigit)

\* phone = re.sub(r'\s+', ' ', matches[0]).strip() for the first match of pattern i
PhoneCandidate(i, text) == Strip(CollapseSpace(Matched(text, Search(PhonePatterns[i], text))))

PhoneMatches(i, text) == Search(PhonePatterns[i], text).found

\* the sanity check on a candidate
HasEnoughDigitsNine(phone) == Len(DigitsOf(phone)) >= 9

HasEnoughDigits(phone) == Len(DigitsOf(phone)) >= 10

\* the pattern the loop tries after pattern i matched and its first match was refused
AfterRefusedStop(i) == Len(PhonePatterns) + 1

AfterRefused(i) == i + 1

\* the loop over the patterns, from pattern i on
RECURSIVE PhoneLoop(_, _)
PhoneLoop(text, i) ==
    IF i > Len(PhonePatterns) THEN NotFound
    ELSE IF PhoneMatches(i, text)
         THEN LET phone == PhoneCandidate(i, text)
              IN  IF HasEnoughDigits(phone) THEN phone
                  ELSE PhoneLoop(text, AfterRefused(i))
    ELSE PhoneLoop(text, i + 1)

extract_phone(text) == PhoneLoop(text, 1)

---------------------------------------------------------------------------
\* extract_email

\* \b[A-Za-z0-9._%+\-]+@[A-Za-z0-9.\-]+\.[A-Za-z]{2,7}\b
EmailPattern ==
    Cat(<<WordBoundary, Plus(Set(AsciiAlnumSet \cup {46, 95, 37, 43, 45})), Set({64}),
          Plus(Set(AsciiAlnumSet \cup {46, 45})), Set({46}),
          Rep(Set(AsciiAlphaSet), 2, 7), WordBoundary>>)

\* the extractor that gives an empty string when there is no address
extract_email_blank(text) ==
    LET m == Search(EmailPattern, text)
    IN  IF m.found THEN Matched(text, m) ELSE <<>>

extract_email(text) ==
    LET m == Search(EmailPattern, text)
    IN  IF m.found THEN Matched(text, m) ELSE NotFound

---------------------------------------------------------------------------
\* extract_name

\* sub in s
IsSubstr(sub, s) ==
    \/ sub = <<>>
    \/ \E i \in 1..(Len(s) - Len(sub) + 1) :
          s[i] = sub[1] /\ SubSeq(s, i, i + Len(sub) - 1) = sub

\* str.split(): the words between runs of white space
SplitWords(s) ==
    LET b == SelectSeq(Indices(s), LAMBDA i : ~IsSpace(s[i]) /\ (i = 1 \/ IsSpace(s[i - 1])))
        e == SelectSeq(Indices(s),
                       LAMBDA i : ~IsSpace(s[i]) /\ (i = Len(s) \/ IsSpace(s[i + 1])))
    IN  [k \in 1..Len(b) |-> SubSeq(s, b[k], e[k])]

\* str.title() of a string of ASCII letters and uncased characters
Title(s) ==
    [i \in 1..Len(s) |->
        IF i > 1 /\ IsAsciiAlpha(s[i - 1]) THEN LowerChar(s[i]) ELSE UpperChar(s[i])]

\* str.capitalize() of a string of ASCII letters and uncased characters
Capitalize(s) ==
    [i \in 1..Len(s) |-> IF i = 1 THEN UpperChar(s[i]) ELSE LowerChar(s[i])]

\* lines[:n]
Prefix(s, n) == SubSeq(s, 1, Min(n, Len(s)))

skip_words ==
    <<
      <<114, 101, 115, 117, 109, 101>>,  \* resume
      <<99, 117, 114, 114, 105, 99, 117, 108, 117, 109>>,  \* curriculum
      <<118, 105, 116, 97, 101>>,  \* vitae
      <<99, 118>>,  \* cv
      <<112, 114, 111, 102, 105, 108, 101>>,  \* profile
      <<115, 117, 109, 109, 97, 114, 121>>,  \* summary
      <<111, 98, 106, 101, 99, 116, 105, 118, 101>>,  \* objective
      <<97, 100, 100, 114, 101, 115, 115>>,  \* address
      <<112, 104, 111, 110, 101>>,  \* phone
      <<101, 109, 97, 105, 108>>,  \* email
      <<99, 111, 110, 116, 97, 99, 116>>,  \* contact
      <<109, 111, 98, 105, 108, 101>>,  \* mobile
      <<108, 105, 110, 107, 101, 100, 105, 110>>,  \* linkedin
      <<103, 105, 116, 104, 117, 98>>,  \* github
      <<112, 111, 114, 116, 102, 111, 108, 105, 111>>,  \* portfolio
      <<119, 101, 98, 115, 105, 116, 101>>,  \* website
      <<104, 116, 116, 112>>,  \* http
      <<119, 119, 119>>,  \* www
      <<101, 100, 117, 99, 97, 116, 105, 111, 110>>,  \* education
      <<101, 120, 112, 101, 114, 105, 101, 110, 99, 101>>,  \* experience
      <<115, 107, 105, 108, 108, 115>>,  \* skills
      <<112, 114, 111, 106, 101, 99, 116, 115>>,  \* projects
      <<99, 101, 114, 116, 105, 102, 105, 99, 97, 116, 105, 111, 110, 115>>,  \* certifications
      <<100, 101, 99, 108, 97, 114, 97, 116, 105, 111, 110>>,  \* declaration
      <<114, 101, 102, 101, 114, 101, 110, 99, 101, 115>>,  \* references
      <<100, 97, 116, 101>>,  \* date
      <<112, 108, 97, 99, 101>>,  \* place
      <<64>>  \* @
    >>

\* any(kw in candidate.lower() for kw in skip_words)
HasSkipWord(candidate) ==
    \E k \in 1..Len(skip_words) : IsSubstr(skip_words[k], Lower(candidate))

\* the windows of the strategies, in lines
NameLabelWindow == 15
NameLineWindow == 10
FirstLineWindow == 5
\* the longest name, in words and (strategy 3) in characters
MaxNameWords == 5
MaxNameLineLen == 50

\* the number of characters of candidate that are letters, '.', ' ' or '-'
AlphaCount(candidate) ==
    Len(SelectSeq(candidate, LAMBDA c : IsAlpha(c) \/ c \in {46, 32, 45}))

\* alpha_chars / max(len(candidate), 1) < 0.85, in twentieths
MostlyAlphabetic(candidate) ==
    ~(AlphaCount(candidate) * 20 < 17 * Max(Len(candidate), 1))

_is_name_like(cand) ==
    LET candidate == Strip(cand)
        words == SplitWords(candidate)
    IN  /\ Len(candidate) >= 2
        /\ Len(words) >= 1
        /\ Len(words) <= MaxNameWords
        /\ \A i \in 1..Len(words) : IsAsciiAlpha(words[i][1])
        /\ MostlyAlphabetic(candidate)
        /\ ~HasSkipWord(candidate)

\* re.sub(r'\s{2,}', ' ', s)
CollapseSpaceRuns(s) ==
    LET kept == SelectSeq(Indices(s), LAMBDA i : ~(IsSpace(s[i]) /\ i > 1 /\ IsSpace(s[i - 1])))
    IN  [k \in 1..Len(kept) |->
            LET i == kept[k]
            IN  IF IsSpace(s[i]) /\ i < Len(s) /\ IsSpace(s[i + 1]) THEN SPACE ELSE s[i]]

_clean_line(line) ==
    LET cleaned == [i \in 1..Len(line) |->
                        IF IsAsciiAlpha(line[i]) \/ IsSpace(line[i]) \/ line[i] \in {46, 45}
                        THEN line[i] ELSE SPACE]
    IN  Strip(CollapseSpaceRuns(cleaned))

\* (?:full\s*)?name\s*[:;\-|]\s*   then the group   (.+)
NameLabel ==
    Cat(<<Opt(Cat(<<LitI(<<102, 117, 108, 108>>), Star(Set(Whitespace))>>)),
          LitI(<<110, 97, 109, 101>>), Star(Set(Whitespace)),
          Set({58, 59, 45, 124}), Star(Set(Whitespace))>>)
NameLabelRest == Plus(NotSet({LF}))

\* a match of prefix followed by group at the start of s: where the group starts
\* and ends
RECURSIVE FirstGroup(_, _, _)
FirstGroup(starts, group, s) ==
    IF starts = <<>> THEN NoMatch
    ELSE LET es == Ends(group, s, starts[1])
         IN  IF es = <<>> THEN FirstGroup(Tail(starts), group, s)
             ELSE [found |-> TRUE, start |-> starts[1], end |-> es[1]]

MatchGroup(prefix, group, s) == FirstGroup(Ends(prefix, s, 1), group, s)

\* m = re.match(...) on line.strip()
LabelMatch(line) == MatchGroup(NameLabel, NameLabelRest, Strip(line))

\* candidate = _clean_line(m.group(1))
LabelCandidate(line) == _clean_line(Matched(Strip(line), LabelMatch(line)))

\* Strategy 1 on one line: the line has the label and a name-like remainder
LabelHit(line) == LabelMatch(line).found /\ _is_name_like(LabelCandidate(line))

\* the first index in i..Len(s) of an element that satisfies Test, 0 if none
FirstIndex(s, i, Test(_)) ==
    LET hits == {k \in i..Len(s) : Test(s[k])}
    IN  IF hits = {} THEN 0 ELSE CHOOSE k \in hits : \A j \in hits : k <= j

\* Strategy 1: <<found, name>>
NameFromLabel(lines) ==
    LET window == Prefix(lines, NameLabelWindow)
        i == FirstIndex(window, 1, LabelHit)
    IN  IF i = 0 THEN <<FALSE, <<>>>> ELSE <<TRUE, Title(LabelCandidate(window[i]))>>

\* Strategy 2 on one entity of doc.ents
PersonHit(ent) ==
    LET candidate == Strip(ent.text)
        words == SplitWords(candidate)
    IN  /\ ent.label = "PERSON"
        /\ Len(words) >= 1
        /\ Len(words) <= MaxNameWords
        /\ Len(candidate) >= 2
        /\ ~HasSkipWord(candidate)

\* lines[:10] of the first block
FirstBlockLines == 10

\* first_block = '\n'.join(lines[:10]) for lines = text.strip().split('\n')
first_block(text) == Join(Prefix(Split(Strip(text), LF), FirstBlockLines), <<LF>>)

\* doc = nlp(first_block): of the entities the loaded model knows, those in
\* the first block of the text
DocOf(recognizer, text) ==
    [loaded |-> recognizer.loaded,
     ents |-> SelectSeq(recognizer.ents, LAMBDA e : IsSubstr(e.text, first_block(text)))]

\* Strategy 2: nlp is the recognizer: loaded or not and, when loaded, the
\* entities it finds in the first block (the first 10 lines)
NameFromNer(nlp) ==
    LET i == IF nlp.loaded THEN FirstIndex(nlp.ents, 1, PersonHit) ELSE 0
    IN  IF i = 0 THEN <<FALSE, <<>>>> ELSE <<TRUE, Strip(nlp.ents[i].text)>>

\* Strategy 3 on one line
NameLineHit(line) ==
    /\ Strip(line) # <<>>
    /\ _is_name_like(_clean_line(Strip(line)))
    /\ Len(_clean_line(Strip(line))) <= MaxNameLineLen

NameFromLine(lines) ==
    LET window == Prefix(lines, NameLineWindow)
        i == FirstIndex(window, 1, NameLineHit)
    IN  IF i = 0 THEN <<FALSE, <<>>>> ELSE <<TRUE, Title(_clean_line(Strip(window[i])))>>

NonBlank(line) == Strip(line) # <<>>

\* Strategy 4: the first non-empty line of the window only
NameFromFirstLine(lines) ==
    LET window == Prefix(lines, FirstLineWindow)
        i == FirstIndex(window, 1, NonBlank)
        words == IF i = 0 THEN <<>>
                 ELSE SelectSeq(SplitWords(_clean_line(Strip(window[i]))),
                                LAMBDA w : Len(w) >= 2)
        candidate == Join(words, <<SPACE>>)
    IN  IF /\ candidate # <<>>
           /\ Len(words) >= 1
           /\ Len(words) <= MaxNameWords
           /\ ~HasSkipWord(candidate)
        THEN <<TRUE, Title(candidate)>>
        ELSE <<FALSE, <<>>>>

\* re.sub(r'[0-9_]', ' ', s)
BlankDigits(s) == [i \in 1..Len(s) |-> IF IsDigit(s[i]) \/ s[i] = 95 THEN SPACE ELSE s[i]]

\* re.split(r'[\.\-\+]+', s)
SplitOnDots(s) ==
    LET IsSep(i) == i >= 1 /\ i <= Len(s) /\ s[i] \in {46, 45, 43}
        b == SelectSeq(Indices(s), LAMBDA i : IsSep(i) /\ ~IsSep(i - 1))
        e == SelectSeq(Indices(s), LAMBDA i : IsSep(i) /\ ~IsSep(i + 1))
    IN  [k \in 1..(Len(b) + 1) |->
            SubSeq(s, IF k = 1 THEN 1 ELSE e[k - 1] + 1,
                      IF k > Len(b) THEN Len(s) ELSE b[k] - 1)]

MapSeq(s, F(_)) == [i \in 1..Len(s) |-> F(s[i])]

\* Strategy 5: the name in the local part of the e-mail address
NameFromEmail(text) ==
    LET email == extract_email(text)
        local_part == BlankDigits(Split(email, 64)[1])
        parts == SelectSeq(MapSeq(SplitOnDots(local_part), Strip), LAMBDA p : Len(p) >= 2)
    IN  IF email # <<>> /\ email # NotFound /\ parts # <<>>
        THEN <<TRUE, Join(MapSeq(parts, Capitalize), <<SPACE>>)>>
        ELSE <<FALSE, <<>>>>

\* the first strategy of the sequence that found a name
RECURSIVE FirstSuccess(_)
FirstSuccess(tries) ==
    IF tries = <<>> THEN NotFound
    ELSE IF tries[1][1] THEN tries[1][2] ELSE FirstSuccess(Tail(tries))

extract_name_ner_first(text, nlp) ==
    LET lines == Split(Strip(text), LF)
    IN  FirstSuccess(<<NameFromNer(nlp), NameFromLabel(lines), NameFromLine(lines),
                       NameFromFirstLine(lines), NameFromEmail(text)>>)

extract_name(text, nlp) ==
    LET lines == Split(Strip(text), LF)
    IN  FirstSuccess(<<NameFromLabel(lines), NameFromNer(nlp), NameFromLine(lines),
                       NameFromFirstLine(lines), NameFromEmail(text)>>)

---------------------------------------------------------------------------
\* _extract_section

all_section_headers ==
    <<
      <<101, 120, 112, 101, 114, 105, 101, 110, 99, 101>>,  \* experience
      <<101, 100, 117, 99, 97, 116, 105, 111, 110>>,  \* education
      <<115, 107, 105, 108, 108, 115>>,  \* skills
      <<112, 114, 111, 106, 101, 99, 116, 115>>,  \* projects
      <<99, 101, 114, 116, 105, 102, 105, 99, 97, 116, 105, 111, 110, 115>>,  \* certifications
      <<97, 119, 97, 114, 100, 115>>,  \* awards
      <<112, 117, 98, 108, 105, 99, 97, 116, 105, 111, 110, 115>>,  \* publications
      <<114, 101, 102, 101, 114, 101, 110, 99, 101, 115>>,  \* references
      <<115, 117, 109, 109, 97, 114, 121>>,  \* summary
      <<111, 98, 106, 101, 99, 116, 105, 118, 101>>,  \* objective
      <<119, 111, 114, 107, 32, 104, 105, 115, 116, 111, 114, 121>>,  \* work history
      <<101, 109, 112, 108, 111, 121, 109, 101, 110, 116>>,  \* employment
      <<97, 99, 97, 100, 101, 109, 105, 99>>,  \* academic
      <<97, 99, 104, 105, 101, 118, 101, 109, 101, 110, 116, 115>>,  \* achievements
      <<105, 110, 116, 101, 114, 101, 115, 116, 115>>,  \* interests
      <<108, 97, 110, 103, 117, 97, 103, 101, 115>>,  \* languages
      <<118, 111, 108, 117, 110, 116, 101, 101, 114>>,  \* volunteer
      <<97, 99, 116, 105, 118, 105, 116, 105, 101, 115>>,  \* activities
      <<99, 111, 110, 116, 97, 99, 116>>,  \* contact
      <<112, 101, 114, 115, 111, 110, 97, 108>>,  \* personal
      <<105, 110, 116, 101, 114, 110, 115, 104, 105, 112>>,  \* internship
      <<116, 114, 97, 105, 110, 105, 110, 103>>,  \* training
      <<99, 111, 117, 114, 115, 101, 115>>,  \* courses
      <<104, 111, 98, 98, 105, 101, 115>>,  \* hobbies
      <<100, 101, 99, 108, 97, 114, 97, 116, 105, 111, 110>>  \* declaration
    >>

EducationKeywords ==
    <<
      <<101, 100, 117, 99, 97, 116, 105, 111, 110>>,  \* education
      <<97, 99, 97, 100, 101, 109, 105, 99, 32, 98, 97, 99, 107, 103, 114, 111, 117, 110, 100>>,  \* academic background
      <<113, 117, 97, 108, 105, 102, 105, 99, 97, 116, 105, 111, 110, 115>>,  \* qualifications
      <<97, 99, 97, 100, 101, 109, 105, 99, 115>>,  \* academics
      <<101, 100, 117, 99, 97, 116, 105, 111, 110, 97, 108, 32, 113, 117, 97, 108, 105, 102, 105, 99, 97, 116, 105, 111, 110>>  \* educational qualification
    >>

ExperienceKeywords ==
    <<
      <<119, 111, 114, 107, 32, 101, 120, 112, 101, 114, 105, 101, 110, 99, 101>>,  \* work experience
      <<112, 114, 111, 102, 101, 115, 115, 105, 111, 110, 97, 108, 32, 101, 120, 112, 101, 114, 105, 101, 110, 99, 101>>,  \* professional experience
      <<101, 120, 112, 101, 114, 105, 101, 110, 99, 101>>,  \* experience
      <<101, 109, 112, 108, 111, 121, 109, 101, 110, 116, 32, 104, 105, 115, 116, 111, 114, 121>>,  \* employment history
      <<119, 111, 114, 107, 32, 104, 105, 115, 116, 111, 114, 121>>,  \* work history
      <<101, 109, 112, 108, 111, 121, 109, 101, 110, 116>>,  \* employment
      <<99, 97, 114, 101, 101, 114, 32, 104, 105, 115, 116, 111, 114, 121>>,  \* career history
      <<105, 110, 116, 101, 114, 110, 115, 104, 105, 112>>,  \* internship
      <<105, 110, 116, 101, 114, 110, 115, 104, 105, 112, 115>>  \* internships
    >>

ProjectsKeywords ==
    <<
      <<112, 114, 111, 106, 101, 99, 116, 115>>,  \* projects
      <<112, 101, 114, 115, 111, 110, 97, 108, 32, 112, 114, 111, 106, 101, 99, 116, 115>>,  \* personal projects
      <<97, 99, 97, 100, 101, 109, 105, 99, 32, 112, 114, 111, 106, 101, 99, 116, 115>>,  \* academic projects
      <<112, 114, 111, 106, 101, 99, 116, 32, 119, 111, 114, 107>>,  \* project work
      <<107, 101, 121, 32, 112, 114, 111, 106, 101, 99, 116, 115>>,  \* key projects
      <<110, 111, 116, 97, 98, 108, 101, 32, 112, 114, 111, 106, 101, 99, 116, 115>>  \* notable projects
    >>

\* the elements of a sequence
Range(s) == {s[i] : i \in DOMAIN s}

\* stop_keywords: the headers that are not among the section's own keywords
StopKeywords(section_keywords) ==
    LET own == Range(MapSeq(section_keywords, Lower))
    IN  SelectSeq(all_section_headers, LAMBDA h : h \notin own)

\* any(kw in line_lower for kw in kws)
HasKeyword(kws, line_lower) == \E k \in 1..Len(kws) : IsSubstr(kws[k], line_lower)

\* a header is a line shorter than this; a stop header is shorter than that
MaxHeaderLen == 80
MaxStopHeaderLen == 60
\* the scan ends after this many blank lines in a row, or collected lines
MaxBlankLines == 3
MaxSectionLines == 40

\* the scan before its first line
SectionStart ==
    [in_section |-> FALSE, empty_line_count |-> 0, section_content |-> <<>>, broke |-> FALSE]

\* a line is the header that opens the section
IsSectionHeader(line, section_keywords) ==
    LET stripped == Strip(line)
        line_lower == Lower(stripped)
        own == MapSeq(section_keywords, Lower)
    IN  HasKeyword(own, line_lower) /\ Len(stripped) < MaxHeaderLen

\* a line is a header of another section
IsStopHeader(line, section_keywords) ==
    LET stripped == Strip(line)
        line_lower == Lower(stripped)
        stop_keywords == StopKeywords(section_keywords)
    IN  HasKeyword(stop_keywords, line_lower) /\ Len(stripped) < MaxStopHeaderLen

\* what the scan does at a header of another section: the loop breaks
AtStopHeaderSkip(st) == st

AtStopHeader(st) == [st EXCEPT !.broke = TRUE]

\* a scan that never reaches the cap
CapNever(n) == FALSE

\* if len(section_content) >= 40: break
CapReached(n) == n >= MaxSectionLines

\* one iteration of the loop over the lines
SectionStep(st, line, section_keywords) ==
    LET stripped == Strip(line)
    IN  IF ~st.in_section
        THEN [st EXCEPT !.in_section = IsSectionHeader(line, section_keywords)]
        ELSE IF IsStopHeader(line, section_keywords) THEN AtStopHeader(st)
        ELSE IF stripped = <<>>
             THEN [st EXCEPT !.empty_line_count = @ + 1,
                             !.broke = (st.empty_line_count + 1 >= MaxBlankLines)
                                          \/ CapReached(Len(st.section_content))]
        ELSE [st EXCEPT !.empty_line_count = 0,
                        !.section_content = Append(@, stripped),
                        !.broke = CapReached(Len(st.section_content) + 1)]

\* the value returned after the loop
SectionResult(st) ==
    IF st.section_content # <<>> THEN Join(st.section_content, <<LF>>) ELSE NotFound

\* the loop from line i on
RECURSIVE SectionScan(_, _, _, _)
SectionScan(st, lines, i, section_keywords) ==
    IF i > Len(lines) \/ st.broke THEN st
    ELSE SectionScan(SectionStep(st, lines[i], section_keywords), lines, i + 1,
                     section_keywords)

_extract_section(text, section_keywords) ==
    SectionResult(SectionScan(SectionStart, Split(text, LF), 1, section_keywords))

extract_experience(text) == _extract_section(text, ExperienceKeywords)

extract_projects(text) == _extract_section(text, ProjectsKeywords)

---------------------------------------------------------------------------
\* extract_linkedin and extract_github

\* [A-Za-z0-9] and [A-Za-z0-9\-] under re.IGNORECASE
AlnumFoldSet == AsciiAlnumSet \cup {304, 305, 383, 8490}

\* [\w\-\.%]
PathCharSet == WordSet \cup {45, 46, 37}

\* (?:https?://)?(?:www\.)?
UrlStart ==
    Cat(<<Opt(Cat(<<LitI(<<104, 116, 116, 112>>), Opt(Set(FoldSet(115))),
                    Lit(<<58, 47, 47>>)>>)),
          Opt(Cat(<<LitI(<<119, 119, 119>>), Set({46})>>))>>)

\* (?:/[\w\-\.%]*)*(?:\?[^\s<>"]*)?
UrlRest ==
    Cat(<<Star(Cat(<<Set({47}), Star(Set(PathCharSet))>>)),
          Opt(Cat(<<Set({63}), Star(NotSet(Whitespace \cup {60, 62, 34}))>>))>>)

\* the pattern without sub-paths and query string
LinkedinUserOnly ==
    Cat(<<UrlStart, LitI(<<108, 105, 110, 107, 101, 100, 105, 110>>), Set({46}),
          LitI(<<99, 111, 109>>), Set({47}), LitI(<<105, 110>>), Set({47}),
          Plus(Set(PathCharSet))>>)

\* linkedin\.com/in/[\w\-\.%]+
LinkedinPattern ==
    Cat(<<UrlStart, LitI(<<108, 105, 110, 107, 101, 100, 105, 110>>), Set({46}),
          LitI(<<99, 111, 109>>), Set({47}), LitI(<<105, 110>>), Set({47}),
          Plus(Set(PathCharSet)), UrlRest>>)

\* the length of a GitHub user name after its first character
MaxUserTail == 38

\* [A-Za-z0-9](?:[A-Za-z0-9\-]{0,38})
GithubUser == Cat(<<Set(AlnumFoldSet), Rep(Set(AlnumFoldSet \cup {45}), 0, MaxUserTail)>>)

\* github\.com/ user
GithubPattern ==
    Cat(<<UrlStart, LitI(<<103, 105, 116, 104, 117, 98>>), Set({46}),
          LitI(<<99, 111, 109>>), Set({47}), GithubUser, UrlRest>>)

\* github\s*[:\-|]\s*   then the group (user)
GithubLabel ==
    Cat(<<LitI(<<103, 105, 116, 104, 117, 98>>), Star(Set(Whitespace)),
          Set({58, 45, 124}), Star(Set(Whitespace))>>)

\* s.rstrip(chars)
RStrip(s, chars) ==
    SubSeq(s, 1, Greatest({k \in 1..Len(s) : s[k] \notin chars} \cup {0}))

\* s.startswith(p)
StartsWith(s, p) == Len(s) >= Len(p) /\ SubSeq(s, 1, Len(p)) = p

\* "https://"
HttpsScheme == <<104, 116, 116, 112, 115, 58, 47, 47>>

\* matches[0] without white space around it and punctuation after it, with a
\* scheme
FullUrl(m) ==
    LET url == RStrip(Strip(m), {46, 44, 59, 41})
    IN  IF StartsWith(Lower(url), <<104, 116, 116, 112>>) THEN url ELSE HttpsScheme \o url

extract_linkedin(text) ==
    LET m == Search(LinkedinPattern, text)
    IN  IF m.found THEN FullUrl(Matched(text, m)) ELSE NotFound

\* re.search of prefix followed by group: where the group starts and ends
SearchGroup(prefix, group, s) ==
    LET m == Search(Cat(<<prefix, group>>), s)
    IN  IF ~m.found THEN NoMatch ELSE FirstGroup(Ends(prefix, s, m.start), group, s)

\* "https://github.com/"
GithubHome ==
    <<104, 116, 116, 112, 115, 58, 47, 47, 103, 105, 116, 104, 117, 98, 46, 99, 111, 109, 47>>

extract_github(text) ==
    LET m == Search(GithubPattern, text)
        label_match == SearchGroup(GithubLabel, GithubUser, text)
    IN  IF m.found THEN FullUrl(Matched(text, m))
        ELSE IF label_match.found THEN GithubHome \o Matched(text, label_match)
        ELSE NotFound

---------------------------------------------------------------------------
\* extract_skills

SKILLS_DB ==
    <<
      <<112, 121, 116, 104, 111, 110>>,  \* python
      <<106, 97, 118, 97>>,  \* java
      <<106, 97, 118, 97, 115, 99, 114, 105, 112, 116>>,  \* javascript
      <<116, 121, 112, 101, 115, 99, 114, 105, 112, 116>>,  \* typescript
      <<99>>,  \* c
      <<99, 43, 43>>,  \* c++
      <<99, 35>>,  \* c#
      <<114, 117, 98, 121>>,  \* ruby
      <<103, 111>>,  \* go
      <<114, 117, 115, 116>>,  \* rust
      <<115, 119, 105, 102, 116>>,  \* swift
      <<107, 111, 116, 108, 105, 110>>,  \* kotlin
      <<112, 104, 112>>,  \* php
      <<114>>,  \* r
      <<109, 97, 116, 108, 97, 98>>,  \* matlab
      <<115, 99, 97, 108, 97>>,  \* scala
      <<112, 101, 114, 108>>,  \* perl
      <<98, 97, 115, 104>>,  \* bash
      <<115, 104, 101, 108, 108>>,  \* shell
      <<112, 111, 119, 101, 114, 115, 104, 101, 108, 108>>,  \* powershell
      <<118, 98, 97>>,  \* vba
      <<100, 97, 114, 116>>,  \* dart
      <<108, 117, 97>>,  \* lua
      <<104, 97, 115, 107, 101, 108, 108>>,  \* haskell
      <<101, 108, 105, 120, 105, 114>>,  \* elixir
      <<104, 116, 109, 108>>,  \* html
      <<99, 115, 115>>,  \* css
      <<114, 101, 97, 99, 116>>,  \* react
      <<97, 110, 103, 117, 108, 97, 114>>,  \* angular
      <<118, 117, 101>>,  \* vue
      <<110, 101, 120, 116, 46, 106, 115>>,  \* next.js
      <<110, 117, 120, 116, 46, 106, 115>>,  \* nuxt.js
      <<106, 113, 117, 101, 114, 121>>,  \* jquery
      <<98, 111, 111, 116, 115, 116, 114, 97, 112>>,  \* bootstrap
      <<116, 97, 105, 108, 119, 105, 110, 100>>,  \* tailwind
      <<115, 97, 115, 115>>,  \* sass
      <<108, 101, 115, 115>>,  \* less
      <<119, 101, 98, 112, 97, 99, 107>>,  \* webpack
      <<118, 105, 116, 101>>,  \* vite
      <<114, 101, 100, 117, 120>>,  \* redux
      <<115, 118, 101, 108, 116, 101>>,  \* svelte
      <<110, 111, 100, 101, 46, 106, 115>>,  \* node.js
      <<101, 120, 112, 114, 101, 115, 115>>,  \* express
      <<100, 106, 97, 110, 103, 111>>,  \* django
      <<102, 108, 97, 115, 107>>,  \* flask
      <<102, 97, 115, 116, 97, 112, 105>>,  \* fastapi
      <<115, 112, 114, 105, 110, 103>>,  \* spring
      <<97, 115, 112, 46, 110, 101, 116>>,  \* asp.net
      <<108, 97, 114, 97, 118, 101, 108>>,  \* laravel
      <<114, 97, 105, 108, 115>>,  \* rails
      <<103, 114, 97, 112, 104, 113, 108>>,  \* graphql
      <<114, 101, 115, 116>>,  \* rest
      <<115, 111, 97, 112>>,  \* soap
      <<97, 112, 105>>,  \* api
      <<115, 119, 97, 103, 103, 101, 114>>,  \* swagger
      <<109, 105, 99, 114, 111, 115, 101, 114, 118, 105, 99, 101, 115>>,  \* microservices
      <<115, 113, 108>>,  \* sql
      <<109, 121, 115, 113, 108>>,  \* mysql
      <<112, 111, 115, 116, 103, 114, 101, 115, 113, 108>>,  \* postgresql
      <<109, 111, 110, 103, 111, 100, 98>>,  \* mongodb
      <<115, 113, 108, 105, 116, 101>>,  \* sqlite
      <<114, 101, 100, 105, 115>>,  \* redis
      <<99, 97, 115, 115, 97, 110, 100, 114, 97>>,  \* cassandra
      <<101, 108, 97, 115, 116, 105, 99, 115, 101, 97, 114, 99, 104>>,  \* elasticsearch
      <<111, 114, 97, 99, 108, 101>>,  \* oracle
      <<109, 115, 115, 113, 108>>,  \* mssql
      <<100, 121, 110, 97, 109, 111, 100, 98>>,  \* dynamodb
      <<102, 105, 114, 101, 98, 97, 115, 101>>,  \* firebase
      <<110, 101, 111, 52, 106>>,  \* neo4j
      <<109, 97, 114, 105, 97, 100, 98>>,  \* mariadb
      <<99, 111, 117, 99, 104, 100, 98>>,  \* couchdb
      <<105, 110, 102, 108, 117, 120, 100, 98>>,  \* influxdb
      <<97, 119, 115>>,  \* aws
      <<97, 122, 117, 114, 101>>,  \* azure
      <<103, 99, 112>>,  \* gcp
      <<100, 111, 99, 107, 101, 114>>,  \* docker
      <<107, 117, 98, 101, 114, 110, 101, 116, 101, 115>>,  \* kubernetes
      <<106, 101, 110, 107, 105, 110, 115>>,  \* jenkins
      <<99, 105, 47, 99, 100>>,  \* ci/cd
      <<116, 101, 114, 114, 97, 102, 111, 114, 109>>,  \* terraform
      <<97, 110, 115, 105, 98, 108, 101>>,  \* ansible
      <<110, 103, 105, 110, 120>>,  \* nginx
      <<97, 112, 97, 99, 104, 101>>,  \* apache
      <<108, 105, 110, 117, 120>>,  \* linux
      <<103, 105, 116>>,  \* git
      <<103, 105, 116, 104, 117, 98>>,  \* github
      <<103, 105, 116, 108, 97, 98>>,  \* gitlab
      <<98, 105, 116, 98, 117, 99, 107, 101, 116>>,  \* bitbucket
      <<99, 105, 114, 99, 108, 101, 99, 105>>,  \* circleci
      <<116, 114, 97, 118, 105, 115, 32, 99, 105>>,  \* travis ci
      <<104, 101, 108, 109>>,  \* helm
      <<109, 97, 99, 104, 105, 110, 101, 32, 108, 101, 97, 114, 110, 105, 110, 103>>,  \* machine learning
      <<100, 101, 101, 112, 32, 108, 101, 97, 114, 110, 105, 110, 103>>,  \* deep learning
      <<116, 101, 110, 115, 111, 114, 102, 108, 111, 119>>,  \* tensorflow
      <<112, 121, 116, 111, 114, 99, 104>>,  \* pytorch
      <<107, 101, 114, 97, 115>>,  \* keras
      <<115, 99, 105, 107, 105, 116, 45, 108, 101, 97, 114, 110>>,  \* scikit-learn
      <<112, 97, 110, 100, 97, 115>>,  \* pandas
      <<110, 117, 109, 112, 121>>,  \* numpy
      <<109, 97, 116, 112, 108, 111, 116, 108, 105, 98>>,  \* matplotlib
      <<115, 101, 97, 98, 111, 114, 110>>,  \* seaborn
      <<110, 108, 112>>,  \* nlp
      <<99, 111, 109, 112, 117, 116, 101, 114, 32, 118, 105, 115, 105, 111, 110>>,  \* computer vision
      <<111, 112, 101, 110, 99, 118>>,  \* opencv
      <<104, 117, 103, 103, 105, 110, 103, 102, 97, 99, 101>>,  \* huggingface
      <<116, 114, 97, 110, 115, 102, 111, 114, 109, 101, 114, 115>>,  \* transformers
      <<98, 101, 114, 116>>,  \* bert
      <<103, 112, 116>>,  \* gpt
      <<108, 108, 109>>,  \* llm
      <<100, 97, 116, 97, 32, 97, 110, 97, 108, 121, 115, 105, 115>>,  \* data analysis
      <<100, 97, 116, 97, 32, 118, 105, 115, 117, 97, 108, 105, 122, 97, 116, 105, 111, 110>>,  \* data visualization
      <<115, 116, 97, 116, 105, 115, 116, 105, 99, 115>>,  \* statistics
      <<104, 97, 100, 111, 111, 112>>,  \* hadoop
      <<115, 112, 97, 114, 107>>,  \* spark
      <<116, 97, 98, 108, 101, 97, 117>>,  \* tableau
      <<112, 111, 119, 101, 114, 32, 98, 105>>,  \* power bi
      <<100, 97, 116, 97, 32, 109, 105, 110, 105, 110, 103>>,  \* data mining
      <<102, 101, 97, 116, 117, 114, 101, 32, 101, 110, 103, 105, 110, 101, 101, 114, 105, 110, 103>>,  \* feature engineering
      <<120, 103, 98, 111, 111, 115, 116>>,  \* xgboost
      <<108, 105, 103, 104, 116, 103, 98, 109>>,  \* lightgbm
      <<114, 97, 110, 100, 111, 109, 32, 102, 111, 114, 101, 115, 116>>,  \* random forest
      <<110, 101, 117, 114, 97, 108, 32, 110, 101, 116, 119, 111, 114, 107>>,  \* neural network
      <<97, 110, 100, 114, 111, 105, 100>>,  \* android
      <<105, 111, 115>>,  \* ios
      <<114, 101, 97, 99, 116, 32, 110, 97, 116, 105, 118, 101>>,  \* react native
      <<102, 108, 117, 116, 116, 101, 114>>,  \* flutter
      <<120, 97, 109, 97, 114, 105, 110>>,  \* xamarin
      <<105, 111, 110, 105, 99>>,  \* ionic
      <<115, 101, 108, 101, 110, 105, 117, 109>>,  \* selenium
      <<112, 121, 116, 101, 115, 116>>,  \* pytest
      <<106, 117, 110, 105, 116>>,  \* junit
      <<106, 101, 115, 116>>,  \* jest
      <<109, 111, 99, 104, 97>>,  \* mocha
      <<99, 121, 112, 114, 101, 115, 115>>,  \* cypress
      <<112, 111, 115, 116, 109, 97, 110>>,  \* postman
      <<117, 110, 105, 116, 32, 116, 101, 115, 116, 105, 110, 103>>,  \* unit testing
      <<105, 110, 116, 101, 103, 114, 97, 116, 105, 111, 110, 32, 116, 101, 115, 116, 105, 110, 103>>,  \* integration testing
      <<116, 101, 115, 116, 32, 97, 117, 116, 111, 109, 97, 116, 105, 111, 110>>,  \* test automation
      <<106, 105, 114, 97>>,  \* jira
      <<99, 111, 110, 102, 108, 117, 101, 110, 99, 101>>,  \* confluence
      <<115, 108, 97, 99, 107>>,  \* slack
      <<116, 114, 101, 108, 108, 111>>,  \* trello
      <<102, 105, 103, 109, 97>>,  \* figma
      <<112, 104, 111, 116, 111, 115, 104, 111, 112>>,  \* photoshop
      <<101, 120, 99, 101, 108>>,  \* excel
      <<118, 105, 115, 117, 97, 108, 32, 115, 116, 117, 100, 105, 111>>,  \* visual studio
      <<118, 115, 32, 99, 111, 100, 101>>,  \* vs code
      <<105, 110, 116, 101, 108, 108, 105, 106>>,  \* intellij
      <<101, 99, 108, 105, 112, 115, 101>>,  \* eclipse
      <<106, 117, 112, 121, 116, 101, 114>>,  \* jupyter
      <<99, 111, 108, 97, 98>>,  \* colab
      <<108, 105, 110, 117, 120>>,  \* linux
      <<117, 110, 105, 120>>,  \* unix
      <<119, 105, 110, 100, 111, 119, 115, 32, 115, 101, 114, 118, 101, 114>>,  \* windows server
      <<98, 97, 115, 104>>,  \* bash
      <<118, 105, 109>>,  \* vim
      <<97, 103, 105, 108, 101>>,  \* agile
      <<115, 99, 114, 117, 109>>,  \* scrum
      <<107, 97, 110, 98, 97, 110>>,  \* kanban
      <<119, 97, 116, 101, 114, 102, 97, 108, 108>>,  \* waterfall
      <<116, 100, 100>>,  \* tdd
      <<98, 100, 100>>,  \* bdd
      <<100, 101, 118, 111, 112, 115>>,  \* devops
      <<112, 114, 111, 106, 101, 99, 116, 32, 109, 97, 110, 97, 103, 101, 109, 101, 110, 116>>,  \* project management
      <<99, 111, 109, 109, 117, 110, 105, 99, 97, 116, 105, 111, 110>>,  \* communication
      <<116, 101, 97, 109, 119, 111, 114, 107>>,  \* teamwork
      <<108, 101, 97, 100, 101, 114, 115, 104, 105, 112>>,  \* leadership
      <<112, 114, 111, 98, 108, 101, 109, 32, 115, 111, 108, 118, 105, 110, 103>>,  \* problem solving
      <<99, 114, 105, 116, 105, 99, 97, 108, 32, 116, 104, 105, 110, 107, 105, 110, 103>>,  \* critical thinking
      <<116, 105, 109, 101, 32, 109, 97, 110, 97, 103, 101, 109, 101, 110, 116>>,  \* time management
      <<97, 100, 97, 112, 116, 97, 98, 105, 108, 105, 116, 121>>  \* adaptability
    >>

\* the acronyms that keep the casing of the vocabulary
KeptAcronyms ==
    {
      <<65, 87, 83>>,  \* AWS
      <<71, 67, 80>>,  \* GCP
      <<83, 81, 76>>,  \* SQL
      <<67, 83, 83>>,  \* CSS
      <<72, 84, 77, 76>>,  \* HTML
      <<65, 80, 73>>,  \* API
      <<78, 76, 80>>,  \* NLP
      <<84, 68, 68>>,  \* TDD
      <<66, 68, 68>>,  \* BDD
      <<86, 66, 65>>  \* VBA
    }

\* the longest skill that is searched as a whole word
MaxShortSkill == 3
\* the longest skill that is upper-cased for display
MaxUpperSkill == 4

\* the character of s at position i is an ASCII letter
IsAsciiAlphaAt(s, i) == i >= 1 /\ i <= Len(s) /\ IsAsciiAlpha(s[i])

\* re.search(r'(?<![a-zA-Z])' + re.escape(w) + r'(?![a-zA-Z])', s): an
\* occurrence of w in s with no ASCII letter right before it or right after it
OccursAsWord(w, s) ==
    \E i \in 1..(Len(s) - Len(w) + 1) :
        /\ s[i] = w[1]
        /\ SubSeq(s, i, i + Len(w) - 1) = w
        /\ ~IsAsciiAlphaAt(s, i - 1)
        /\ ~IsAsciiAlphaAt(s, i + Len(w))

\* re.search(pattern, text_lower) for the pattern built from the skill
SkillOccurs(skill, text_lower) ==
    IF Len(skill) <= MaxShortSkill
    THEN OccursAsWord(Lower(skill), text_lower)
    ELSE IsSubstr(Lower(skill), text_lower)

\* c in s
HasChar(s, c) == \E i \in 1..Len(s) : s[i] = c

\* the form in which a found skill is listed
DisplaySkill(skill) ==
    IF HasChar(skill, 46) \/ HasChar(skill, 47) \/ Upper(skill) \in KeptAcronyms
    THEN skill
    ELSE IF Len(skill) <= MaxUpperSkill /\ Upper(skill) = Upper(skill)
    THEN Upper(skill)
    ELSE Title(skill)

\* found_skills taken as it is
UniqueSkillsAll(found_skills) == found_skills

\* the loop over found_skills: a skill is kept unless an earlier one has the
\* same lower-case key
UniqueSkills(found_skills) ==
    LET keys == MapSeq(found_skills, Lower)
        kept == SelectSeq(Indices(found_skills),
                          LAMBDA i : \A j \in 1..(i - 1) : keys[j] # keys[i])
    IN  [k \in 1..Len(kept) |-> found_skills[kept[k]]]

\* a < b for two strings: the order of the code points at the first
\* difference, a proper prefix first
StrLess(a, b) ==
    LET diff == {i \in 1..Min(Len(a), Len(b)) : a[i] # b[i]}
    IN  IF diff = {} THEN Len(a) < Len(b) ELSE a[Least(diff)] < b[Least(diff)]

\* sorted(s) for a list of strings
Sorted(s) ==
    LET rank(i) == Cardinality({j \in 1..Len(s) : StrLess(s[j], s[i])})
                     + Cardinality({j \in 1..(i - 1) : s[j] = s[i]}) + 1
    IN  [k \in 1..Len(s) |-> s[CHOOSE i \in 1..Len(s) : rank(i) = k]]

\* the body of extract_skills, for the value skills_db of the global SKILLS_DB
SkillsAmong(skills_db, text) ==
    LET text_lower == Lower(text)
        hits == SelectSeq(skills_db, LAMBDA skill : SkillOccurs(skill, text_lower))
        found_skills == MapSeq(hits, DisplaySkill)
    IN  Sorted(UniqueSkills(found_skills))

extract_skills(text) == SkillsAmong(SKILLS_DB, text)

\* a loop that removes the entry it has visited first
AfterLoopPopped(skills_db) == Tail(skills_db)

\* SKILLS_DB after "for skill in SKILLS_DB": the loop assigns nothing to the
\* list or to its entries
AfterLoop(skills_db) == skills_db

---------------------------------------------------------------------------
\* calculate_skill_match

\* Python's float is the IEEE 754 binary64: a significand of 53 bits
SignificandBits == 53

\* a natural number is written in binary, the most significant bit first; a
\* float is [bits |-> b, exp |-> e], the number b * 2^e

\* b without its leading zeros
NoLeadingZeros(b) ==
    LET ones == {i \in 1..Len(b) : b[i] = 1}
    IN  IF ones = {} THEN <<>> ELSE SubSeq(b, Least(ones), Len(b))

\* b + 1
BitsPlusOne(b) ==
    LET zeros == {i \in 1..Len(b) : b[i] = 0}
    IN  IF zeros = {} THEN <<1>> \o [i \in 1..Len(b) |-> 0]
        ELSE [i \in 1..Len(b) |->
                 IF i < Greatest(zeros) THEN b[i] ELSE IF i = Greatest(zeros) THEN 1 ELSE 0]

\* b * k for 0 < k < 128, exactly
BitsTimes(b, k) ==
    LET width == Len(b) + 7
        digit(j) == IF j <= Len(b) THEN b[Len(b) + 1 - j] ELSE 0
        carry[j \in 0..width] == IF j = 0 THEN 0 ELSE (digit(j) * k + carry[j - 1]) \div 2
    IN  NoLeadingZeros([i \in 1..width |->
                           (digit(width + 1 - i) * k + carry[width - i]) % 2])

\* the number of a short numeral
RECURSIVE BitsValue(_)
BitsValue(b) ==
    IF b = <<>> THEN 0 ELSE 2 * BitsValue(SubSeq(b, 1, Len(b) - 1)) + b[Len(b)]

\* the bits after the first one are the half of the unit before them
IsHalf(rest) == rest # <<>> /\ rest[1] = 1 /\ \A i \in 2..Len(rest) : rest[i] = 0
MoreThanHalf(rest) == rest # <<>> /\ rest[1] = 1 /\ \E i \in 2..Len(rest) : rest[i] = 1

\* round to nearest, ties to even: the float nearest to b * 2^exp
RoundToFloat(b, exp) ==
    IF Len(b) <= SignificandBits THEN [bits |-> b, exp |-> exp]
    ELSE LET top == SubSeq(b, 1, SignificandBits)
             rest == SubSeq(b, SignificandBits + 1, Len(b))
             up == MoreThanHalf(rest) \/ (IsHalf(rest) /\ top[SignificandBits] = 1)
         IN  [bits |-> IF up THEN BitsPlusOne(top) ELSE top, exp |-> exp + Len(rest)]

\* m / n for integers 0 < m <= n: the quotient of the long division is cut after
\* the bits of a significand and rounded on the remainder
FloatQuotient(m, n) ==
    LET shift == CHOOSE s \in 0..20 : m * 2^s >= n /\ (s = 0 \/ m * 2^(s - 1) < n)
        rem[i \in 0..(SignificandBits - 1)] ==
            IF i = 0 THEN m * 2^shift - n ELSE (2 * rem[i - 1]) % n
        quotient == [i \in 1..SignificandBits |-> IF i = 1 THEN 1 ELSE (2 * rem[i - 2]) \div n]
        last == rem[SignificandBits - 1]
        up == 2 * last > n \/ (2 * last = n /\ quotient[SignificandBits] = 1)
    IN  [bits |-> IF up THEN BitsPlusOne(quotient) ELSE quotient,
         exp |-> 0 - (SignificandBits - 1) - shift]

\* x * k for a float x and an integer 0 < k < 128
FloatTimes(x, k) == RoundToFloat(BitsTimes(x.bits, k), x.exp)

\* round(x, 1) of a float 0 < x < 128, in tenths: the tenth nearest to the
\* number x is, the even one of two equally near
RoundFloatToTenths(x) ==
    LET tens == BitsTimes(x.bits, 10)
        fraction_bits == 0 - x.exp
        whole == IF Len(tens) > fraction_bits
                 THEN BitsValue(SubSeq(tens, 1, Len(tens) - fraction_bits)) ELSE 0
        fraction == IF Len(tens) >= fraction_bits
                    THEN SubSeq(tens, Len(tens) - fraction_bits + 1, Len(tens))
                    ELSE [i \in 1..(fraction_bits - Len(tens)) |-> 0] \o tens
    IN  IF MoreThanHalf(fraction) \/ (IsHalf(fraction) /\ whole % 2 = 1)
        THEN whole + 1 ELSE whole

\* round((m / n) * 100, 1) for integers 0 <= m <= n, in tenths
RoundedTenths(m, n) ==
    IF m = 0 THEN 0 ELSE RoundFloatToTenths(FloatTimes(FloatQuotient(m, n), 100))

\* the percentage is in tenths of a percent
NoSkillMatch == [percentage |-> 0, matched |-> <<>>, missing |-> <<>>]

\* the test that looks at the job description only
NothingToMatchJobOnly(resume_skills, job_description) == job_description = <<>>

\* if not job_description or not resume_skills
NothingToMatch(resume_skills, job_description) ==
    job_description = <<>> \/ resume_skills = <<>>

\* the matched skills taken from the resume's list, in its order and casing
MatchedMissingOfResume(resume_skills, job_skills) ==
    LET job_lower == Range(MapSeq(job_skills, Lower))
        resume_lower == Range(MapSeq(resume_skills, Lower))
    IN  [matched |-> SelectSeq(resume_skills, LAMBDA s : Lower(s) \in job_lower),
         missing |-> SelectSeq(job_skills, LAMBDA s : Lower(s) \notin resume_lower)]

\* matched and missing: the job's skills that are, and that are not, among
\* the resume's, compared in lower case
MatchedMissing(resume_skills, job_skills) ==
    LET resume_lower == Range(MapSeq(resume_skills, Lower))
        job_lower == Range(MapSeq(job_skills, Lower))
        matched_lower == resume_lower \cap job_lower
        missing_lower == job_lower \ resume_lower
    IN  [matched |-> SelectSeq(job_skills, LAMBDA s : Lower(s) \in matched_lower),
         missing |-> SelectSeq(job_skills, LAMBDA s : Lower(s) \in missing_lower)]

\* the body of calculate_skill_match, for the value skills_db of SKILLS_DB
SkillMatchAmong(skills_db, resume_skills, job_description) ==
    IF NothingToMatch(resume_skills, job_description) THEN NoSkillMatch
    ELSE LET job_skills == SkillsAmong(skills_db, job_description)
             m == MatchedMissing(resume_skills, job_skills)
         IN  IF job_skills = <<>> THEN NoSkillMatch
             ELSE [percentage |-> RoundedTenths(Len(m.matched), Len(job_skills)),
                   matched |-> m.matched,
                   missing |-> m.missing]

calculate_skill_match(resume_skills, job_description) ==
    SkillMatchAmong(SKILLS_DB, resume_skills, job_description)

---------------------------------------------------------------------------
\* extract_education

\* h1\.?h2\.? ... tail: every head followed by an optional dot, under
\* re.IGNORECASE
Abbrev(heads, tail) ==
    Cat([i \in 1..(Len(heads) + 1) |->
            IF i <= Len(heads) THEN Cat(<<LitI(heads[i]), Opt(Set({46}))>>) ELSE LitI(tail)])

\* what a match takes of the line after the degree
MaxDegreeTail == 120
\* matches[:6]
MaxDegrees == 6

\* (?:B\.?Tech|...|Senior Secondary)[^\n]{0,120}
DegreePattern ==
    Cat(<<Alt(<<
          Abbrev(<<<<66>>>>, <<84, 101, 99, 104>>),  \* B\.?Tech
          Abbrev(<<<<66>>, <<69>>>>, <<>>),  \* B\.?E\.?
          Abbrev(<<<<66>>, <<83, 99>>>>, <<>>),  \* B\.?Sc\.?
          Abbrev(<<<<66>>, <<67, 111, 109>>>>, <<>>),  \* B\.?Com\.?
          Abbrev(<<<<66>>, <<65>>>>, <<>>),  \* B\.?A\.?
          Abbrev(<<<<77>>>>, <<84, 101, 99, 104>>),  \* M\.?Tech
          Abbrev(<<<<77>>, <<69>>>>, <<>>),  \* M\.?E\.?
          Abbrev(<<<<77>>, <<83, 99>>>>, <<>>),  \* M\.?Sc\.?
          Abbrev(<<<<77>>, <<66>>, <<65>>>>, <<>>),  \* M\.?B\.?A\.?
          Abbrev(<<<<77>>, <<67>>, <<65>>>>, <<>>),  \* M\.?C\.?A\.?
          Abbrev(<<<<80, 104>>, <<68>>>>, <<>>),  \* Ph\.?D\.?
          LitI(<<66, 97, 99, 104, 101, 108, 111, 114>>),  \* Bachelor
          LitI(<<77, 97, 115, 116, 101, 114>>),  \* Master
          LitI(<<68, 111, 99, 116, 111, 114>>),  \* Doctor
          LitI(<<68, 105, 112, 108, 111, 109, 97>>),  \* Diploma
          LitI(<<72, 105, 103, 104, 32, 83, 99, 104, 111, 111, 108>>),  \* High School
          LitI(<<49, 48, 116, 104>>),  \* 10th
          LitI(<<49, 50, 116, 104>>),  \* 12th
          LitI(<<83, 101, 99, 111, 110, 100, 97, 114, 121>>),  \* Secondary
          LitI(<<83, 101, 110, 105, 111, 114, 32, 83, 101, 99, 111, 110, 100, 97, 114, 121>>)  \* Senior Secondary
          >>),
          Rep(NotSet({LF}), 0, MaxDegreeTail)>>)

\* the fallback: the degrees named anywhere in the text
DegreeLines(text) ==
    LET matches == FindAll(DegreePattern, text)
    IN  Dedupe(MapSeq(Prefix(matches, MaxDegrees), Strip))

extract_education(text) ==
    LET content == _extract_section(text, EducationKeywords)
        degrees == DegreeLines(text)
    IN  IF content = NotFound /\ degrees # <<>> THEN Join(degrees, <<LF>>) ELSE content

---------------------------------------------------------------------------
\* extract_text_from_pdf and extract_text_from_docx
\*
\* A file is a record: kind is "pdf", "docx" or "corrupt"; a PDF has pages (the
\* text extract_text() gives for each page), a Word document has paragraphs and
\* tables (a table is a sequence of rows, a row a sequence of cell texts).  A
\* reader raises on a file that is not of its kind.

\* the concatenation of a sequence of sequences
RECURSIVE Concat(_)
Concat(parts) ==
    IF Len(parts) = 0 THEN <<>>
    ELSE IF Len(parts) = 1 THEN parts[1]
    ELSE LET h == Len(parts) \div 2
         IN  Concat(SubSeq(parts, 1, h)) \o Concat(SubSeq(parts, h + 1, Len(parts)))

Raised(type, message) == [ok |-> FALSE, type |-> type, message |-> message]
Returned(text) == [ok |-> TRUE, text |-> text]

\* text += piece + "\n" for every piece
AddLines(pieces) == Concat(MapSeq(pieces, LAMBDA p : p \o <<LF>>))

extract_text_from_pdf(file, PdfReader) ==
    IF ~PdfReader THEN Raised("ImportError", "PyPDF2 is not installed")
    ELSE IF file.kind # "pdf" THEN Raised("ValueError", "Error reading PDF file")
    ELSE Returned(Strip(AddLines(SelectSeq(file.pages, LAMBDA page_text : page_text # <<>>))))

\* " | "
CellSeparator == <<SPACE, 124, SPACE>>

\* row_text of one table row
RowText(row) ==
    Join(SelectSeq(MapSeq(row, Strip), LAMBDA cell : cell # <<>>), CellSeparator)

\* the rows of all tables, in order
AllRows(tables) == Concat(tables)

extract_text_from_docx(file, Document) ==
    IF ~Document THEN Raised("ImportError", "python-docx is not installed")
    ELSE IF file.kind # "docx" THEN Raised("ValueError", "Error reading DOCX file")
    ELSE LET paras == SelectSeq(file.paragraphs, LAMBDA para : Strip(para) # <<>>)
             rows == SelectSeq(MapSeq(AllRows(file.tables), RowText),
                               LAMBDA row_text : row_text # <<>>)
         IN  Returned(Strip(AddLines(paras) \o AddLines(rows)))

---------------------------------------------------------------------------
\* parse_resume

\* ".pdf", ".docx", ".doc"
PdfExt == <<46, 112, 100, 102>>
DocxExt == <<46, 100, 111, 99, 120>>
DocExt == <<46, 100, 111, 99>>

\* the reader for any extension but the three: the PDF reader
ReaderForDefaultPdf(file_extension) ==
    LET ext == Lower(file_extension)
    IN  IF ext \in {DocxExt, DocExt} THEN "docx" ELSE "pdf"

\* the branch the extension selects
ReaderFor(file_extension) ==
    LET ext == Lower(file_extension)
    IN  IF ext = PdfExt THEN "pdf"
        ELSE IF ext \in {DocxExt, DocExt} THEN "docx"
        ELSE "unsupported"

\* the longest text that is shown whole in raw_text_preview
MaxPreview == 800

\* "\n...[truncated]"
TruncatedMark == <<10, 46, 46, 46, 91, 116, 114, 117, 110, 99, 97, 116, 101, 100, 93>>

RawTextPreview(cleaned_text) ==
    IF Len(cleaned_text) > MaxPreview
    THEN SubSeq(cleaned_text, 1, MaxPreview) \o TruncatedMark
    ELSE cleaned_text

\* the skill_match part of the record that counts only the missing skills
SkillMatchMissingOnly(match) ==
    [percentage |-> match.percentage,
     matched_skills |-> match.matched,
     missing_skills |-> match.missing,
     total_jd_skills |-> Len(match.missing),
     matched_count |-> Len(match.matched)]

\* the skill_match part of the record
SkillMatch(match) ==
    [percentage |-> match.percentage,
     matched_skills |-> match.matched,
     missing_skills |-> match.missing,
     total_jd_skills |-> Len(match.matched) + Len(match.missing),
     matched_count |-> Len(match.matched)]

\* the record parse_resume builds from the cleaned text
\* the dictionary built from the cleaned text, the skills and the match
ParsedFrom(cleaned_text, skills, match, nlp) ==
    [name |-> extract_name(cleaned_text, nlp),
     email |-> extract_email(cleaned_text),
     phone |-> extract_phone(cleaned_text),
     linkedin |-> extract_linkedin(cleaned_text),
     github |-> extract_github(cleaned_text),
     skills |-> skills,
     education |-> extract_education(cleaned_text),
     experience |-> extract_experience(cleaned_text),
     projects |-> extract_projects(cleaned_text),
     skill_match |-> SkillMatch(match),
     raw_text_preview |-> RawTextPreview(cleaned_text)]

\* the record parse_resume builds from the cleaned text
Parsed(cleaned_text, job_description, nlp) ==
    LET skills == extract_skills(cleaned_text)
    IN  ParsedFrom(cleaned_text, skills, calculate_skill_match(skills, job_description), nlp)

---------------------------------------------------------------------------
\* clean_text applied to a text and then to its own result

MaxCleanLen == 6

\* the variables of the other specifications, at rest
OffPhone == phPc = "off" /\ phText = <<>> /\ phResult = <<>>
OffName == nmPc = "off" /\ nmText = <<>> /\ nmNlp = <<>> /\ nmResult = <<>>
OffSection ==
    /\ secPc = "off"
    /\ secLines = <<>>
    /\ secKeywords = <<>>
    /\ secIdx = 0
    /\ in_section = FALSE
    /\ empty_line_count = 0
    /\ section_content = <<>>
    /\ secResult = <<>>
OffParse ==
    /\ prPc = "off"
    /\ prExt = <<>>
    /\ prFile = <<>>
    /\ prJob = <<>>
    /\ prPdfReader = FALSE
    /\ prDocument = FALSE
    /\ prNlp = <<>>
    /\ prCalls = <<>>
    /\ prRawText = <<>>
    /\ prCleanedText = <<>>
    /\ prParsed = <<>>
    /\ prError = <<>>
OffCall == fnPc = "off" /\ fnText = <<>> /\ fnArg = <<>> /\ fnResult = <<>>
OffShared == invocations = <<>> /\ sharedSkillsDb = <<>> /\ sharedNlp = <<>>
OffUpload == handlers = <<>> /\ uploads = {} /\ resumes = <<>> /\ sqlite_sequence = 0
OffClean == ctPc = "off" /\ ctText = <<>> /\ ctCleaned = <<>> /\ ctRecleaned = <<>>

\* a letter, space, LF, CR, a control character, the no-break space (kept by
\* the pattern, white space to strip) and a character beyond U+FFFF
CleanChars == {97, SPACE, LF, CR, 0, 160, 128512}

InitClean ==
    /\ ctPc = "start"
    /\ ctText \in SeqsUpTo(CleanChars, MaxCleanLen)
    /\ ctCleaned = <<>>
    /\ ctRecleaned = <<>>
    /\ OffPhone
    /\ OffName
    /\ OffSection
    /\ OffParse
    /\ OffCall
    /\ OffShared
    /\ OffUpload

Clean ==
    /\ ctPc = "start"
    /\ ctCleaned' = clean_text(ctText)
    /\ ctPc' = "cleaned"
    /\ UNCHANGED <<ctText, ctRecleaned>>
    /\ UNCHANGED <<varsPhone, varsName, varsSection, varsParse, varsCall, varsShared, varsUpload>>

Reclean ==
    /\ ctPc = "cleaned"
    /\ ctRecleaned' = clean_text(ctCleaned)
    /\ ctPc' = "recleaned"
    /\ UNCHANGED <<ctText, ctCleaned>>
    /\ UNCHANGED <<varsPhone, varsName, varsSection, varsParse, varsCall, varsShared, varsUpload>>

NextClean == Clean \/ Reclean

SpecClean == InitClean /\ [][NextClean]_vars

\* C1: clean_text is idempotent: cleaning a cleaned text gives the same text.
C1_CleanIdempotent == ctPc = "recleaned" => ctRecleaned = ctCleaned

\* a text with three blank-looking lines between two letters was cleaned twice
C1_Witness ==
    /\ ctPc = "recleaned"
    /\ ctText = <<97, LF, SPACE, LF, LF, 97>>
    /\ ctCleaned = <<97, LF, LF, 97>>

---------------------------------------------------------------------------
\* extract_phone applied to a text

MaxPhoneParts == 3

\* "+1 ", "(555) ", "867-5309", "12345", " ", "9876543210", "+1 2 345 6789", "x"
PhoneParts ==
    { <<43, 49, 32>>,
      <<40, 53, 53, 53, 41, 32>>,
      <<56, 54, 55, 45, 53, 51, 48, 57>>,
      <<49, 50, 51, 52, 53>>,
      <<32>>,
      <<57, 56, 55, 54, 53, 52, 51, 50, 49, 48>>,
      <<43, 49, 32, 50, 32, 51, 52, 53, 32, 54, 55, 56, 57>>,
      <<120>> }

InitPhone ==
    /\ phPc = "start"
    /\ phText \in {Concat(ps) : ps \in SeqsUpTo(PhoneParts, MaxPhoneParts)}
    /\ phResult = <<>>
    /\ OffClean
    /\ OffName
    /\ OffSection
    /\ OffParse
    /\ OffCall
    /\ OffShared
    /\ OffUpload

CallPhone ==
    /\ phPc = "start"
    /\ phResult' = extract_phone(phText)
    /\ phPc' = "done"
    /\ UNCHANGED phText
    /\ UNCHANGED <<varsClean, varsName, varsSection, varsParse, varsCall, varsShared, varsUpload>>

NextPhone == CallPhone

SpecPhone == InitPhone /\ [][NextPhone]_vars

\* "+1 (555) 867-5309"
PhoneExample == <<43, 49, 32, 40, 53, 53, 53, 41, 32, 56, 54, 55, 45, 53, 51, 48, 57>>

\* the first match of pattern i is a phone number the sanity check lets through
PhoneAcceptable(i, text) ==
    PhoneMatches(i, text) /\ Len(DigitsOf(PhoneCandidate(i, text))) >= 10

\* C7 as stated: the first pattern that matches at all decides the result, and
\* the result is "Not Found" when its first match has fewer than 10 digits.
C7_FirstMatchingPatternDecides ==
    phPc = "done" =>
        \A i \in 1..Len(PhonePatterns) :
            (PhoneMatches(i, phText) /\ \A j \in 1..(i - 1) : ~PhoneMatches(j, phText))
                => phResult = (IF PhoneAcceptable(i, phText)
                               THEN PhoneCandidate(i, phText) ELSE NotFound)

\* C7 amended: the first pattern whose first match has at least 10 digits
\* decides the result; a pattern whose first match has fewer is passed over and
\* the lower-priority patterns are still tried; "Not Found" only if no pattern
\* has such a first match.
C7_FirstAcceptablePatternDecides ==
    phPc = "done" =>
        \/ /\ phResult = NotFound
           /\ \A i \in 1..Len(PhonePatterns) : ~PhoneAcceptable(i, phText)
        \/ \E i \in 1..Len(PhonePatterns) :
              /\ PhoneAcceptable(i, phText)
              /\ \A j \in 1..(i - 1) : ~PhoneAcceptable(j, phText)
              /\ phResult = PhoneCandidate(i, phText)

\* the international pattern matched 9 digits, was passed over, and the
\* 10-digit pattern gave the result
C7_Witness ==
    /\ phPc = "done"
    /\ PhoneMatches(1, phText)
    /\ ~PhoneAcceptable(1, phText)
    /\ phResult = <<57, 56, 55, 54, 53, 52, 51, 50, 49, 48>>

\* C8: a returned phone number is "Not Found" or has at least 10 digits;
\* "+1 (555) 867-5309" is returned as it is, and a text whose only digits are
\* "12345" gives "Not Found".
C8_PhoneHasTenDigits ==
    phPc = "done" =>
        /\ phResult = NotFound \/ Len(SelectSeq(phResult, IsDigit)) >= 10
        /\ phText = PhoneExample => phResult = PhoneExample
        /\ SelectSeq(phText, IsDigit) = <<49, 50, 51, 52, 53>> => phResult = NotFound

C8_Witness ==
    /\ phPc = "done"
    /\ phText = PhoneExample
    /\ phResult = PhoneExample

---------------------------------------------------------------------------
\* extract_name applied to a text

MaxNameLines == 2

NameLines ==
    {
      <<78, 97, 109, 101, 58, 32, 74, 97, 110, 101, 32, 81, 46, 32, 80, 117, 98, 108, 105, 99>>,  \* Name: Jane Q. Public
      <<70, 117, 108, 108, 32, 78, 97, 109, 101, 32, 45, 32, 106, 111, 104, 110, 32, 115, 109, 105, 116, 104>>,  \* Full Name - john smith
      <<74, 111, 104, 110, 32, 83, 109, 105, 116, 104>>,  \* John Smith
      <<106, 111, 104, 110, 46, 100, 111, 101, 57, 57, 64, 109, 97, 105, 108, 46, 99, 111, 109>>,  \* john.doe99@mail.com
      <<69, 109, 97, 105, 108, 58, 32, 106, 111, 104, 110, 46, 100, 111, 101, 57, 57, 64, 109, 97, 105, 108, 46, 99, 111, 109>>,  \* Email: john.doe99@mail.com
      <<82, 101, 115, 117, 109, 101>>,  \* Resume
      <<>>,  \* 
      <<78, 97, 109, 101, 58, 32, 49, 50, 51, 52, 53>>,  \* Name: 12345
      <<45, 32, 74, 97, 110, 101, 32, 68, 111, 101>>  \* - Jane Doe
    }

\* a line that no strategy takes for a name: "12345"
PadLine == <<49, 50, 51, 52, 53>>

\* n copies of x
Copies(x, n) == [i \in 1..n |-> x]

\* what the recognizer may find: "Alan Turing" and "Resume Bob" as persons,
\* "Acme" as an organization
NameEnts ==
    { [text |-> <<65, 108, 97, 110, 32, 84, 117, 114, 105, 110, 103>>, label |-> "PERSON"],
      [text |-> <<82, 101, 115, 117, 109, 101, 32, 66, 111, 98>>, label |-> "PERSON"],
      [text |-> <<65, 99, 109, 101>>, label |-> "ORG"] }

\* nlp is None, or the loaded model with the entities it finds: none, one, or
\* the organization and then a person
Recognizers ==
    {[loaded |-> FALSE, ents |-> <<>>]}
        \cup {[loaded |-> TRUE, ents |-> es] : es \in SeqsUpTo(NameEnts, 1)}
        \cup {[loaded |-> TRUE, ents |-> <<org, e>>] :
                 org \in {x \in NameEnts : x.label = "ORG"},
                 e \in {x \in NameEnts : x.label = "PERSON"}}

\* the text starts with no line, or with 14 lines that hold no name, so that
\* the lines that follow sit at the edge of the 15-line window
InitName ==
    /\ nmPc = "start"
    /\ \E pad \in {0, 14}, ls \in SeqsUpTo(NameLines, MaxNameLines) :
          nmText = Join(Copies(PadLine, pad) \o ls, <<LF>>)
    /\ nmNlp \in Recognizers
    /\ nmResult = <<>>
    /\ OffClean
    /\ OffPhone
    /\ OffSection
    /\ OffParse
    /\ OffCall
    /\ OffShared
    /\ OffUpload

CallName ==
    /\ nmPc = "start"
    /\ nmResult' = extract_name(nmText, nmNlp)
    /\ nmPc' = "done"
    /\ UNCHANGED <<nmText, nmNlp>>
    /\ UNCHANGED <<varsClean, varsPhone, varsSection, varsParse, varsCall, varsShared, varsUpload>>

NextName == CallName

SpecName == InitName /\ [][NextName]_vars

\* "john.doe99@mail.com" and "John Doe"
JohnDoeEmail ==
    <<106, 111, 104, 110, 46, 100, 111, 101, 57, 57, 64, 109, 97, 105, 108, 46, 99, 111, 109>>
JohnDoe == <<74, 111, 104, 110, 32, 68, 111, 101>>

\* the line has nothing a strategy before the last could take for a name: no
\* name label, not a name-like line, and no words to salvage
NoNameSignal(line) ==
    /\ ~LabelMatch(line).found
    /\ ~_is_name_like(_clean_line(Strip(line)))
    /\ LET words == SelectSeq(SplitWords(_clean_line(Strip(line))), LAMBDA w : Len(w) >= 2)
       IN  words = <<>> \/ HasSkipWord(Join(words, <<SPACE>>))

\* C6: with the e-mail address "john.doe99@mail.com" in the text, no recognizer
\* and no name signal on any line other than the one holding the address,
\* extract_name returns "John Doe".
C6_EmailFallbackName ==
    (/\ nmPc = "done"
     /\ ~nmNlp.loaded
     /\ extract_email(nmText) = JohnDoeEmail
     /\ \A i \in DOMAIN Split(nmText, LF) :
           LET line == Split(nmText, LF)[i]
           IN  ~IsSubstr(JohnDoeEmail, line) => NoNameSignal(line))
        => nmResult = JohnDoe

\* C9: the first of the first 15 lines that has a name label with a name-like
\* cleaned remainder gives the result, title-cased, whatever the recognizer
\* finds and whatever the other lines hold.
C9_LabelWins ==
    nmPc = "done" =>
        LET lines == Split(Strip(nmText), LF)
        IN  \A i \in 1..Len(lines) :
                (/\ i <= 15
                 /\ LabelHit(lines[i])
                 /\ \A j \in 1..(i - 1) : ~LabelHit(lines[j]))
                    => nmResult = Title(LabelCandidate(lines[i]))

\* "Name: Jane Q. Public" is line 15, a name-like line follows or precedes,
\* the recognizer finds a person, and the label's name is the result
C9_Witness ==
    /\ nmPc = "done"
    /\ nmNlp.loaded
    /\ nmNlp.ents # <<>>
    /\ PersonHit(nmNlp.ents[1])
    /\ Len(Split(nmText, LF)) = 16
    /\ Split(nmText, LF)[15] = <<78, 97, 109, 101, 58, 32, 74, 97, 110, 101, 32, 81, 46, 32, 80, 117, 98, 108, 105, 99>>
    /\ Split(nmText, LF)[16] = <<74, 111, 104, 110, 32, 83, 109, 105, 116, 104>>
    /\ nmResult = <<74, 97, 110, 101, 32, 81, 46, 32, 80, 117, 98, 108, 105, 99>>

---------------------------------------------------------------------------
\* _extract_section scanning a text line by line

MaxSecLines == 4

SectionLines ==
    {
      <<69, 120, 112, 101, 114, 105, 101, 110, 99, 101>>,  \* Experience
      <<68, 105, 100, 32, 88>>,  \* Did X
      <<>>,  \* 
      <<69, 100, 117, 99, 97, 116, 105, 111, 110>>,  \* Education
      <<68, 105, 100, 32, 89>>  \* Did Y
    }

\* a line of 61 characters that holds "education": too long for a stop header,
\* short enough for the header of the education section
LongLine ==
    <<86, 111, 108, 117, 110, 116, 101, 101, 114, 32, 116, 117, 116, 111, 114, 32, 102, 111, 114, 32, 97, 100, 117, 108, 116, 32, 101, 100, 117, 99, 97, 116, 105, 111, 110, 32, 112, 114, 111, 103, 114, 97, 109, 109, 101, 115, 44, 32, 50, 48, 49, 57, 32, 116, 111, 32, 50, 48, 50, 49, 46>>

LongLineSections ==
    {<<<<69, 120, 112, 101, 114, 105, 101, 110, 99, 101>>, <<68, 105, 100, 32, 88>>, LongLine, <<68, 105, 100, 32, 89>>>>,
     <<<<69, 120, 112, 101, 114, 105, 101, 110, 99, 101>>, LongLine, <<69, 100, 117, 99, 97, 116, 105, 111, 110>>, <<68, 105, 100, 32, 89>>>>,
     <<LongLine, <<68, 105, 100, 32, 88>>, <<69, 120, 112, 101, 114, 105, 101, 110, 99, 101>>>>}

\* "Experience", then 39 to 41 lines "Did X", then nothing or "Did Y": texts that
\* reach the cap on the collected lines
LongSections ==
    {<<<<69, 120, 112, 101, 114, 105, 101, 110, 99, 101>>>> \o Copies(<<68, 105, 100, 32, 88>>, n) \o tail :
        n \in (MaxSectionLines - 1)..(MaxSectionLines + 1),
        tail \in {<<>>, <<<<68, 105, 100, 32, 89>>>>}}

\* a line of 91 characters that holds "experience": too long for a header
WideLine ==
    <<79, 118, 101, 114, 32, 116, 104, 101, 32, 121, 101, 97, 114, 115, 32, 73, 32, 103, 97, 116, 104, 101, 114, 101, 100, 32, 101, 120, 112, 101, 114, 105, 101, 110, 99, 101, 32, 105, 110, 32, 109, 97, 110, 121, 32, 102, 105, 101, 108, 100, 115, 32, 111, 102, 32, 119, 111, 114, 107, 44, 32, 97, 116, 32, 104, 111, 109, 101, 32, 97, 110, 100, 32, 97, 98, 114, 111, 97, 100, 44, 32, 97, 115, 32, 108, 105, 115, 116, 101, 100, 46>>

\* texts whose only line with "experience" is too long for a header, or comes
\* before the header
WideLineSections ==
    {<<WideLine, <<68, 105, 100, 32, 88>>>>,
     <<WideLine, <<69, 120, 112, 101, 114, 105, 101, 110, 99, 101>>, <<68, 105, 100, 32, 88>>>>}

\* texts with three blank lines in a row inside the section
BlankRunSections ==
    {<<<<69, 120, 112, 101, 114, 105, 101, 110, 99, 101>>, <<68, 105, 100, 32, 88>>, <<>>, <<>>, <<>>, <<68, 105, 100, 32, 89>>>>,
     <<<<69, 120, 112, 101, 114, 105, 101, 110, 99, 101>>, <<68, 105, 100, 32, 88>>, <<>>, <<>>, <<68, 105, 100, 32, 89>>, <<>>, <<>>, <<>>, <<68, 105, 100, 32, 88>>>>}

InitSection ==
    /\ secPc = "scan"
    /\ secLines \in SeqsUpTo(SectionLines, MaxSecLines) \cup LongLineSections \cup LongSections
                      \cup WideLineSections \cup BlankRunSections
    /\ secLines # <<>>
    /\ secKeywords \in {ExperienceKeywords, EducationKeywords}
    /\ secIdx = 1
    /\ in_section = FALSE
    /\ empty_line_count = 0
    /\ section_content = <<>>
    /\ secResult = <<>>
    /\ OffClean
    /\ OffPhone
    /\ OffName
    /\ OffParse
    /\ OffCall
    /\ OffShared
    /\ OffUpload

\* one iteration of "for line in lines"
ScanLine ==
    /\ secPc = "scan"
    /\ secIdx <= Len(secLines)
    /\ LET st == SectionStep([in_section |-> in_section,
                              empty_line_count |-> empty_line_count,
                              section_content |-> section_content,
                              broke |-> FALSE],
                             secLines[secIdx], secKeywords)
       IN  /\ in_section' = st.in_section
           /\ empty_line_count' = st.empty_line_count
           /\ section_content' = st.section_content
           /\ secPc' = IF st.broke THEN "return" ELSE "scan"
    /\ secIdx' = secIdx + 1
    /\ UNCHANGED <<secLines, secKeywords, secResult>>
    /\ UNCHANGED <<varsClean, varsPhone, varsName, varsParse, varsCall, varsShared, varsUpload>>

\* the lines are exhausted
EndOfLines ==
    /\ secPc = "scan"
    /\ secIdx > Len(secLines)
    /\ secPc' = "return"
    /\ UNCHANGED <<secLines, secKeywords, secIdx, in_section, empty_line_count,
                   section_content, secResult>>
    /\ UNCHANGED <<varsClean, varsPhone, varsName, varsParse, varsCall, varsShared, varsUpload>>

ReturnSection ==
    /\ secPc = "return"
    /\ secResult' = SectionResult([section_content |-> section_content])
    /\ secPc' = "done"
    /\ UNCHANGED <<secLines, secKeywords, secIdx, in_section, empty_line_count,
                   section_content>>
    /\ UNCHANGED <<varsClean, varsPhone, varsName, varsParse, varsCall, varsShared, varsUpload>>

NextSection == ScanLine \/ EndOfLines \/ ReturnSection

SpecSection == InitSection /\ [][NextSection]_vars

\* the index of the header line that opens the section, 0 if there is none
HeaderIndex == FirstIndex(secLines, 1, LAMBDA l : IsSectionHeader(l, secKeywords))

\* the index of the first stop header after the header line, 0 if there is none
StopIndex ==
    IF HeaderIndex = 0 THEN 0
    ELSE FirstIndex(secLines, HeaderIndex + 1, LAMBDA l : IsStopHeader(l, secKeywords))

\* the trimmed non-blank lines among lines a..b
TrimmedLines(a, b) ==
    SelectSeq(MapSeq(SubSeq(secLines, a, b), Strip), LAMBDA l : l # <<>>)

\* "Experience", "Did X", "Education", "Did Y"
SectionExample ==
    <<<<69, 120, 112, 101, 114, 105, 101, 110, 99, 101>>, <<68, 105, 100, 32, 88>>, <<69, 100, 117, 99, 97, 116, 105, 111, 110>>, <<68, 105, 100, 32, 89>>>>

\* C10: when a stop header follows the header line, the scan reads no line
\* after the first such stop header, and what is collected comes only from the
\* lines between the header line and it; the example gives exactly "Did X".
C10_StopHeaderEndsScan ==
    /\ LET h == HeaderIndex
           s == StopIndex
           between == TrimmedLines(h + 1, s - 1)
       IN  s # 0 =>
             /\ secIdx <= s + 1
             /\ section_content = TrimmedLines(h + 1, Min(secIdx - 1, s - 1))
             /\ secPc = "done" =>
                   secResult = (IF between = <<>> THEN NotFound ELSE Join(between, <<LF>>))
    /\ (secPc = "done" /\ secLines = SectionExample /\ secKeywords = ExperienceKeywords)
          => secResult = <<68, 105, 100, 32, 88>>

C10_Witness ==
    /\ secPc = "done"
    /\ secLines = SectionExample
    /\ secKeywords = ExperienceKeywords
    /\ StopIndex = 3
    /\ secResult = <<68, 105, 100, 32, 88>>

---------------------------------------------------------------------------
\* parse_resume called on a file

MaxPages == 2

\* what a page of a PDF may hold: contact lines, skills and a phone number,
\* nothing, a NUL character, three sections
PageTexts ==
    {
      <<78, 97, 109, 101, 58, 32, 74, 97, 110, 101, 32, 68, 111, 101, 10, 106, 97, 110, 101, 46, 100, 111, 101, 64, 109, 97, 105, 108, 46, 99, 111, 109, 10, 108, 105, 110, 107, 101, 100, 105, 110, 46, 99, 111, 109, 47, 105, 110, 47, 106, 97, 110, 101, 45, 100, 111, 101>>,  \* Name: Jane Doe\njane.doe@mail.com\nlinkedin.com/in/jane-doe
      <<83, 107, 105, 108, 108, 115, 58, 32, 80, 121, 116, 104, 111, 110, 44, 32, 83, 81, 76, 44, 32, 103, 111, 10, 43, 49, 32, 40, 53, 53, 53, 41, 32, 56, 54, 55, 45, 53, 51, 48, 57, 10, 71, 105, 116, 72, 117, 98, 58, 32, 106, 100, 111, 101>>,  \* Skills: Python, SQL, go\n+1 (555) 867-5309\nGitHub: jdoe
      <<>>,  \* 
      <<0>>,  \* \x00
      <<69, 100, 117, 99, 97, 116, 105, 111, 110, 10, 66, 46, 84, 101, 99, 104, 10, 69, 120, 112, 101, 114, 105, 101, 110, 99, 101, 10, 68, 105, 100, 32, 88, 10, 80, 114, 111, 106, 101, 99, 116, 115, 10, 65, 112, 112>>  \* Education\nB.Tech\nExperience\nDid X\nProjects\nApp
    }

PdfFiles ==
    {[kind |-> "pdf", pages |-> ps, paragraphs |-> <<>>, tables |-> <<>>] :
        ps \in SeqsUpTo(PageTexts, MaxPages)}

\* the number of paragraphs of the long document
LongDocument == 140

\* Word documents: a name and a table of skills; one emoji; nothing; a long
\* document
DocxFiles ==
    {[kind |-> "docx", pages |-> <<>>,
      paragraphs |-> <<<<74, 111, 104, 110, 32, 83, 109, 105, 116, 104>>, <<32, 32>>>>,
      tables |-> <<<<<<<<32, 80, 121, 116, 104, 111, 110, 32>>, <<>>, <<74, 97, 118, 97>>>>, <<<<>>, <<32>>>>>>>>],
     [kind |-> "docx", pages |-> <<>>, paragraphs |-> <<<<128512>>>>, tables |-> <<>>],
     [kind |-> "docx", pages |-> <<>>, paragraphs |-> <<>>, tables |-> <<>>],
     [kind |-> "docx", pages |-> <<>>,
      paragraphs |-> Copies(<<68, 105, 100, 32, 88>>, LongDocument), tables |-> <<>>]}

CorruptFile == [kind |-> "corrupt", pages |-> <<>>, paragraphs |-> <<>>, tables |-> <<>>]

\* ".PDF", ".docx", ".Doc", ".txt", ".pdfx"
Extensions ==
    {
      <<46, 80, 68, 70>>,  \* .PDF
      <<46, 100, 111, 99, 120>>,  \* .docx
      <<46, 68, 111, 99>>,  \* .Doc
      <<46, 116, 120, 116>>,  \* .txt
      <<46, 112, 100, 102, 120>>  \* .pdfx
    }

\* "", "Python, SQL and Docker"
JobDescriptions ==
    {
      <<>>,  \* 
      <<80, 121, 116, 104, 111, 110, 44, 32, 83, 81, 76, 32, 97, 110, 100, 32, 68, 111, 99, 107, 101, 114>>  \* Python, SQL and Docker
    }

\* no recognizer, or one that finds the person "Jane Doe"
ParseRecognizers ==
    {[loaded |-> FALSE, ents |-> <<>>],
     [loaded |-> TRUE, ents |-> <<[text |-> <<74, 97, 110, 101, 32, 68, 111, 101>>, label |-> "PERSON"]>>]}

\* the recognizer finds only what the file holds
Recognizable(n, file) ==
    \A i \in 1..Len(n.ents) :
        \E k \in 1..Len(file.pages) : IsSubstr(n.ents[i].text, file.pages[k])

InitParse ==
    /\ prPc = "start"
    /\ prExt \in Extensions
    /\ prFile \in PdfFiles \cup DocxFiles \cup {CorruptFile}
    /\ prJob \in JobDescriptions
    /\ \E libs \in {<<TRUE, TRUE>>, <<FALSE, TRUE>>, <<TRUE, FALSE>>} :
          prPdfReader = libs[1] /\ prDocument = libs[2]
    /\ prNlp \in {n \in ParseRecognizers : Recognizable(n, prFile)}
    /\ prCalls = <<>>
    /\ prRawText = <<>>
    /\ prCleanedText = <<>>
    /\ prParsed = <<>>
    /\ prError = <<>>
    /\ OffClean
    /\ OffPhone
    /\ OffName
    /\ OffSection
    /\ OffCall
    /\ OffShared
    /\ OffUpload

\* the extension selects a reader, or the call fails
Dispatch ==
    /\ prPc = "start"
    /\ LET reader == ReaderFor(prExt)
       IN  IF reader = "unsupported"
           THEN /\ prPc' = "raised"
                /\ prError' = Raised("ValueError", "Unsupported file format")
           ELSE /\ prPc' = reader
                /\ prError' = prError
    /\ UNCHANGED <<prExt, prFile, prJob, prPdfReader, prDocument, prNlp, prCalls,
                   prRawText, prCleanedText, prParsed>>
    /\ UNCHANGED <<varsClean, varsPhone, varsName, varsSection, varsCall, varsShared, varsUpload>>

\* raw_text = extract_text_from_pdf(file_path)
ReadPdf ==
    /\ prPc = "pdf"
    /\ prCalls' = Append(prCalls, "extract_text_from_pdf")
    /\ LET res == extract_text_from_pdf(prFile, prPdfReader)
       IN  IF res.ok
           THEN prPc' = "check" /\ prRawText' = res.text /\ prError' = prError
           ELSE prPc' = "raised" /\ prRawText' = prRawText /\ prError' = res
    /\ UNCHANGED <<prExt, prFile, prJob, prPdfReader, prDocument, prNlp,
                   prCleanedText, prParsed>>
    /\ UNCHANGED <<varsClean, varsPhone, varsName, varsSection, varsCall, varsShared, varsUpload>>

\* raw_text = extract_text_from_docx(file_path)
ReadDocx ==
    /\ prPc = "docx"
    /\ prCalls' = Append(prCalls, "extract_text_from_docx")
    /\ LET res == extract_text_from_docx(prFile, prDocument)
       IN  IF res.ok
           THEN prPc' = "check" /\ prRawText' = res.text /\ prError' = prError
           ELSE prPc' = "raised" /\ prRawText' = prRawText /\ prError' = res
    /\ UNCHANGED <<prExt, prFile, prJob, prPdfReader, prDocument, prNlp,
                   prCleanedText, prParsed>>
    /\ UNCHANGED <<varsClean, varsPhone, varsName, varsSection, varsCall, varsShared, varsUpload>>

\* if not raw_text.strip(): raise
CheckText ==
    /\ prPc = "check"
    /\ IF Strip(prRawText) = <<>>
       THEN /\ prPc' = "raised"
            /\ prError' = Raised("ValueError", "Could not extract any text")
       ELSE /\ prPc' = "extract"
            /\ prError' = prError
    /\ UNCHANGED <<prExt, prFile, prJob, prPdfReader, prDocument, prNlp, prCalls,
                   prRawText, prCleanedText, prParsed>>
    /\ UNCHANGED <<varsClean, varsPhone, varsName, varsSection, varsCall, varsShared, varsUpload>>

\* steps 2 and 3: the text is cleaned, the fields are extracted, the record is
\* returned
Extract ==
    /\ prPc = "extract"
    /\ prCleanedText' = clean_text(prRawText)
    /\ prParsed' = Parsed(prCleanedText', prJob, DocOf(prNlp, prCleanedText'))
    /\ prPc' = "returned"
    /\ UNCHANGED <<prExt, prFile, prJob, prPdfReader, prDocument, prNlp, prCalls,
                   prRawText, prError>>
    /\ UNCHANGED <<varsClean, varsPhone, varsName, varsSection, varsCall, varsShared, varsUpload>>

NextParse == Dispatch \/ ReadPdf \/ ReadDocx \/ CheckText \/ Extract

SpecParse == InitParse /\ [][NextParse]_vars

\* the keys of the record
RecordKeys ==
    {"name", "email", "phone", "linkedin", "github", "skills", "education",
     "experience", "projects", "skill_match", "raw_text_preview"}

\* the fields that hold a string
TextFields ==
    {"name", "email", "phone", "linkedin", "github", "education", "experience", "projects"}

\* v is a sequence of code points
IsString(v) == DOMAIN v = 1..Len(v) /\ \A i \in 1..Len(v) : v[i] \in Nat

\* the extension is none of .pdf, .docx, .doc in any letter case
UnsupportedExt == Lower(prExt) \notin {PdfExt, DocxExt, DocExt}

\* what the reader the extension selects gives for the file
ReaderResult ==
    IF Lower(prExt) = PdfExt THEN extract_text_from_pdf(prFile, prPdfReader)
    ELSE extract_text_from_docx(prFile, prDocument)

\* C2: whenever parse_resume returns, the record has every key, and each of
\* name, email, phone, linkedin, github, education, experience, projects is a
\* non-empty string; the call fails only for an unsupported extension, a
\* reader that raised or a text that is blank, never in a field extractor.
C2_RecordComplete ==
    /\ prPc = "returned" =>
          /\ DOMAIN prParsed = RecordKeys
          /\ \A k \in TextFields : IsString(prParsed[k]) /\ prParsed[k] # <<>>
          /\ \A i \in 1..Len(prParsed.skills) : IsString(prParsed.skills[i])
    /\ prPc = "raised" =>
          \/ UnsupportedExt
          \/ ~ReaderResult.ok
          \/ Strip(ReaderResult.text) = <<>>

\* a record with a name, the skills "JAVA" and "Python", and no e-mail address
C2_Witness ==
    /\ prPc = "returned"
    /\ prParsed.name = <<74, 111, 104, 110, 32, 83, 109, 105, 116, 104>>
    /\ prParsed.email = NotFound
    /\ prParsed.skills = <<<<74, 65, 86, 65>>, <<80, 121, 116, 104, 111, 110>>>>

\* C3: in every record, total_jd_skills = matched_count + len(missing_skills),
\* matched_count = len(matched_skills), and the percentage (in tenths) is
\* between 0 and 100.
C3_SkillMatchCounts ==
    prPc = "returned" =>
        LET m == prParsed.skill_match
        IN  /\ m.total_jd_skills = m.matched_count + Len(m.missing_skills)
            /\ m.matched_count = Len(m.matched_skills)
            /\ m.percentage >= 0
            /\ m.percentage <= 1000

\* "Python" and "sql" of the job description are in the resume, "Docker" is
\* not: 66.7 %
C3_Witness ==
    /\ prPc = "returned"
    /\ prParsed.skill_match.matched_skills = <<<<80, 121, 116, 104, 111, 110>>, <<115, 113, 108>>>>
    /\ prParsed.skill_match.missing_skills = <<<<68, 111, 99, 107, 101, 114>>>>
    /\ prParsed.skill_match.total_jd_skills = 3
    /\ prParsed.skill_match.percentage = 667

\* C4: with an extension other than .pdf, .docx, .doc (in any letter case) the
\* call fails with the unsupported-format error and no reader function was
\* called, whether or not the libraries are available.
C4_UnsupportedBeforeRead ==
    UnsupportedExt =>
        /\ prCalls = <<>>
        /\ prPc \in {"start", "raised"}
        /\ prPc = "raised" => prError = Raised("ValueError", "Unsupported file format")

\* ".txt" has failed while the PDF library is missing
C4_Witness ==
    /\ prPc = "raised"
    /\ prExt = <<46, 116, 120, 116>>
    /\ ~prPdfReader
    /\ prCalls = <<>>
    /\ prError = Raised("ValueError", "Unsupported file format")

\* C5: a reader text that is blank makes the call fail with "could not extract
\* any text" and gives no record, and no extractor runs on an empty text: a
\* record is never made from an empty cleaned text.
C5_NoExtractionOnEmptyText ==
    /\ (prPc \in {"raised", "returned"} /\ ~UnsupportedExt /\ ReaderResult.ok
          /\ Strip(ReaderResult.text) = <<>>)
          => (prPc = "raised" /\ prParsed = <<>>
                /\ prError = Raised("ValueError", "Could not extract any text"))
    /\ prPc = "returned" => prCleanedText # <<>>

---------------------------------------------------------------------------
\* extract_skills called on a text

MaxSkillParts == 2

\* the pieces a text is made of
SkillParts ==
    {
      <<80, 121, 116, 104, 111, 110, 44, 32>>,
      <<80, 89, 84, 72, 79, 78, 44, 32>>,
      <<112, 121, 116, 104, 111, 110>>,
      <<106, 97, 118, 97, 115, 99, 114, 105, 112, 116>>,
      <<73, 32, 117, 115, 101, 32, 71, 111, 32, 100, 97, 105, 108, 121>>,
      <<98, 97, 115, 104, 32>>,
      <<115, 251, 114, 32>>,
      <<114, 50, 100, 50, 32>>,
      <<99, 43, 43, 32>>,
      <<78, 101, 120, 116, 46, 74, 83, 32>>,
      <<108, 105, 110, 117, 120>>,
      <<99, 105, 47, 99, 100, 32>>
    }

\* the texts: up to MaxSkillParts pieces in a row, "Python, PYTHON, python",
\* and every entry of the vocabulary by itself
SkillTexts ==
    {Concat(ps) : ps \in SeqsUpTo(SkillParts, MaxSkillParts)}
        \cup {<<80, 121, 116, 104, 111, 110, 44, 32, 80, 89, 84, 72, 79, 78, 44, 32, 112, 121, 116, 104, 111, 110>>}
        \cup Range(SKILLS_DB)

AllOffButUpload == OffClean /\ OffPhone /\ OffName /\ OffSection /\ OffParse /\ OffCall /\ OffShared
AllOff == OffClean /\ OffPhone /\ OffName /\ OffSection /\ OffParse /\ OffShared /\ OffUpload

InitSkills ==
    /\ fnPc = "start"
    /\ fnText \in SkillTexts
    /\ fnArg = <<>>
    /\ fnResult = <<>>
    /\ AllOff

CallSkills ==
    /\ fnPc = "start"
    /\ fnResult' = extract_skills(fnText)
    /\ fnPc' = "done"
    /\ UNCHANGED <<fnText, fnArg>>
    /\ UNCHANGED <<varsClean, varsPhone, varsName, varsSection, varsParse, varsShared, varsUpload>>

NextSkills == CallSkills

SpecSkills == InitSkills /\ [][NextSkills]_vars

\* C11: extract_skills never returns two entries that are equal when compared
\* case-insensitively, and "Python, PYTHON, python" gives the one entry
\* "Python".
C11_NoCaseDuplicates ==
    fnPc = "done" =>
        /\ \A i, j \in 1..Len(fnResult) : i # j => Lower(fnResult[i]) # Lower(fnResult[j])
        /\ fnText = <<80, 121, 116, 104, 111, 110, 44, 32, 80, 89, 84, 72, 79, 78, 44, 32, 112, 121, 116, 104, 111, 110>> => fnResult = <<<<80, 121, 116, 104, 111, 110>>>>

\* "bash " and "linux": both are listed twice in the vocabulary, each is
\* returned once
C11_Witness ==
    /\ fnPc = "done"
    /\ fnText = <<98, 97, 115, 104, 32, 108, 105, 110, 117, 120>>
    /\ fnResult = <<<<66, 65, 83, 72>>, <<76, 105, 110, 117, 120>>>>

\* the vocabulary entry is in the list returned
Reported(skill) == DisplaySkill(skill) \in Range(fnResult)

\* w occurs in s with no letter of any alphabet right before it or right after
\* it
StandsAlone(w, s) ==
    \E i \in 1..(Len(s) - Len(w) + 1) :
        /\ SubSeq(s, i, i + Len(w) - 1) = w
        /\ ~(i > 1 /\ IsAlpha(s[i - 1]))
        /\ ~(i + Len(w) <= Len(s) /\ IsAlpha(s[i + Len(w)]))

\* C12: a vocabulary skill of at most 3 characters is reported exactly when it
\* stands in the text as a word of its own, in any letter case, and not when it
\* occurs only inside a longer word; "javascript" gives neither "c" nor "r",
\* "I use Go daily" gives "go".
C12_ShortSkillsWholeWord ==
    fnPc = "done" =>
        /\ \A k \in 1..Len(SKILLS_DB) :
              Len(SKILLS_DB[k]) <= MaxShortSkill =>
                 (Reported(SKILLS_DB[k]) <=> StandsAlone(Lower(SKILLS_DB[k]), Lower(fnText)))
        /\ fnText = <<106, 97, 118, 97, 115, 99, 114, 105, 112, 116>> => ~Reported(<<99>>) /\ ~Reported(<<114>>)
        /\ fnText = <<73, 32, 117, 115, 101, 32, 71, 111, 32, 100, 97, 105, 108, 121>> => Reported(<<103, 111>>)

---------------------------------------------------------------------------
\* calculate_skill_match called on a list of resume skills and a job description

MaxJobParts == 2

\* the lists of resume skills: none; "Python", "sql", "GO"; "python"; "RUST",
\* "Python", "DOCKER"; "Docker", "docker"; "Kotlin"
ResumeSkillLists ==
    {
      <<>>,
      <<<<80, 121, 116, 104, 111, 110>>, <<115, 113, 108>>, <<71, 79>>>>,
      <<<<112, 121, 116, 104, 111, 110>>>>,
      <<<<82, 85, 83, 84>>, <<80, 121, 116, 104, 111, 110>>, <<68, 79, 67, 75, 69, 82>>>>,
      <<<<68, 111, 99, 107, 101, 114>>, <<100, 111, 99, 107, 101, 114>>>>,
      <<<<75, 111, 116, 108, 105, 110>>>>
    }

\* the pieces a job description is made of
JobParts ==
    {
      <<80, 121, 116, 104, 111, 110, 32>>,  \* Python 
      <<83, 81, 76, 32>>,  \* SQL 
      <<103, 111, 32>>,  \* go 
      <<100, 111, 99, 107, 101, 114, 32>>,  \* docker 
      <<119, 101, 32, 104, 105, 114, 101, 32>>,  \* we hire 
      <<114, 117, 115, 116, 44>>  \* rust,
    }

InitMatch ==
    /\ fnPc = "start"
    /\ fnText \in {Concat(ps) : ps \in SeqsUpTo(JobParts, MaxJobParts)}
    /\ fnArg \in ResumeSkillLists
    /\ fnResult = <<>>
    /\ AllOff

CallMatch ==
    /\ fnPc = "start"
    /\ fnResult' = calculate_skill_match(fnArg, fnText)
    /\ fnPc' = "done"
    /\ UNCHANGED <<fnText, fnArg>>
    /\ UNCHANGED <<varsClean, varsPhone, varsName, varsSection, varsParse, varsShared, varsUpload>>

NextMatch == CallMatch

SpecMatch == InitMatch /\ [][NextMatch]_vars

\* the number of indices at which s holds x
Count(s, x) == Cardinality({i \in 1..Len(s) : s[i] = x})

\* sub is s without some of its elements, in the order of s
IsSubsequence(sub, s) ==
    \E keep \in SUBSET (1..Len(s)) :
        sub = SelectSeq(s, LAMBDA x : \E i \in keep : s[i] = x) /\ Len(sub) = Cardinality(keep)

\* some resume skill equals the skill when both are lower-cased
InResume(skill) == \E i \in 1..Len(fnArg) : Lower(fnArg[i]) = Lower(skill)

\* C13: for a non-empty resume list and a job description with a detected
\* skill, matched_skills and missing_skills are subsequences of the job's skill
\* list, in its order, that together hold every job skill exactly once; a job
\* skill is matched exactly when it equals a resume skill case-insensitively.
C13_MatchedMissingPartition ==
    LET job_skills == extract_skills(fnText)
    IN  (fnPc = "done" /\ fnArg # <<>> /\ job_skills # <<>>) =>
            /\ IsSubsequence(fnResult.matched, job_skills)
            /\ IsSubsequence(fnResult.missing, job_skills)
            /\ \A i \in 1..Len(job_skills) :
                  /\ Count(fnResult.matched, job_skills[i])
                        + Count(fnResult.missing, job_skills[i]) = 1
                  /\ Count(fnResult.matched, job_skills[i]) = 1 <=> InResume(job_skills[i])

\* the resume lists "RUST", "Python", "DOCKER" and the job names go and docker:
\* "Docker" is matched in the job list's casing and "GO" is missing
C13_Witness ==
    /\ fnPc = "done"
    /\ fnArg = <<<<82, 85, 83, 84>>, <<80, 121, 116, 104, 111, 110>>, <<68, 79, 67, 75, 69, 82>>>>
    /\ fnText = <<103, 111, 32, 100, 111, 99, 107, 101, 114, 32>>
    /\ fnResult.matched = <<<<68, 111, 99, 107, 101, 114>>>>
    /\ fnResult.missing = <<<<71, 79>>>>

\* C14: the result is (0.0, [], []) whenever the resume list is empty, the job
\* description is empty, or no vocabulary skill is found in the job
\* description; the record then has total_jd_skills = 0 and matched_count = 0.
C14_NothingToMatch ==
    (fnPc = "done" /\ (fnArg = <<>> \/ fnText = <<>> \/ extract_skills(fnText) = <<>>)) =>
        /\ fnResult = [percentage |-> 0, matched |-> <<>>, missing |-> <<>>]
        /\ SkillMatch(fnResult).total_jd_skills = 0
        /\ SkillMatch(fnResult).matched_count = 0

\* no resume skills and a job description that names Python
C14_Witness ==
    /\ fnPc = "done"
    /\ fnArg = <<>>
    /\ fnText = <<80, 121, 116, 104, 111, 110, 32>>
    /\ fnResult.percentage = 0
    /\ fnResult.missing = <<>>

---------------------------------------------------------------------------
\* extract_linkedin called on a text

MaxLinkParts == 2

\* the pieces a text is made of: profile URLs with and without scheme, www,
\* sub-paths, query string and trailing punctuation, and text without profile
LinkParts ==
    {
      <<108, 105, 110, 107, 101, 100, 105, 110, 46, 99, 111, 109, 47, 105, 110, 47, 106, 97, 110, 101, 45, 100, 111, 101, 47, 100, 101, 116, 97, 105, 108, 115, 63, 120, 61, 49>>,  \* linkedin.com/in/jane-doe/details?x=1
      <<104, 116, 116, 112, 115, 58, 47, 47, 119, 119, 119, 46, 108, 105, 110, 107, 101, 100, 105, 110, 46, 99, 111, 109, 47, 105, 110, 47, 98, 111, 98, 46>>,  \* https://www.linkedin.com/in/bob.
      <<115, 101, 101, 32>>,  \* see 
      <<10>>,  \* \n
      <<76, 105, 110, 107, 101, 100, 73, 110, 46, 99, 111, 109, 47, 105, 110, 47, 97, 95, 98, 47, 41, 59>>,  \* LinkedIn.com/in/a_b/);
      <<103, 105, 116, 104, 117, 98, 46, 99, 111, 109, 47, 120, 32>>,  \* github.com/x 
      <<104, 116, 116, 112, 58, 47, 47, 108, 105, 110, 107, 101, 100, 105, 110, 46, 99, 111, 109, 47, 105, 110, 47>>,  \* http://linkedin.com/in/
      <<119, 119, 119, 46, 108, 105, 110, 107, 101, 100, 105, 110, 46, 99, 111, 109, 47, 105, 110, 47, 120, 37, 50, 48, 121, 63, 113, 61, 97, 44, 98, 41, 46, 32>>,  \* www.linkedin.com/in/x%20y?q=a,b). 
      <<108, 105, 110, 107, 101, 100, 105, 110, 46, 99, 111, 109, 47, 99, 111, 109, 112, 97, 110, 121, 47, 97, 99, 109, 101, 32>>,  \* linkedin.com/company/acme 
      <<60, 97, 32, 104, 114, 101, 102, 61, 34, 72, 84, 84, 80, 83, 58, 47, 47, 108, 105, 110, 107, 101, 100, 105, 110, 46, 99, 111, 109, 47, 105, 110, 47, 65, 108, 47, 63, 115, 61, 49, 34, 62>>,  \* <a href="HTTPS://linkedin.com/in/Al/?s=1">
      <<102, 116, 112, 58, 47, 47>>  \* ftp://
    }

InitLinkedin ==
    /\ fnPc = "start"
    /\ fnText \in {Concat(ps) : ps \in SeqsUpTo(LinkParts, MaxLinkParts)}
    /\ fnArg = <<>>
    /\ fnResult = <<>>
    /\ AllOff

CallLinkedin ==
    /\ fnPc = "start"
    /\ fnResult' = extract_linkedin(fnText)
    /\ fnPc' = "done"
    /\ UNCHANGED <<fnText, fnArg>>
    /\ UNCHANGED <<varsClean, varsPhone, varsName, varsSection, varsParse, varsShared, varsUpload>>

NextLinkedin == CallLinkedin

SpecLinkedin == InitLinkedin /\ [][NextLinkedin]_vars

\* "linkedin.com/in/" and one character of a user name, in any letter case
ProfileBase ==
    Cat(<<LitI(<<108, 105, 110, 107, 101, 100, 105, 110>>), Set({46}),
          LitI(<<99, 111, 109>>), Set({47}), LitI(<<105, 110>>), Set({47}),
          Set(PathCharSet)>>)

\* url is the text from i on up to some j, less the punctuation . , ; ) that
\* ends it, and the text does not go on at j + 1 with a path character or '/'
WholeUrlAt(url, s, i) ==
    \E j \in i..Len(s) :
        /\ Len(url) <= j - i + 1
        /\ SubSeq(s, i, i + Len(url) - 1) = url
        /\ \A k \in (i + Len(url))..j : s[k] \in {46, 44, 59, 41}
        /\ (url = <<>> \/ url[Len(url)] \notin {46, 44, 59, 41})
        /\ (j < Len(s) => s[j + 1] \notin PathCharSet \cup {47})

\* the URL starts with "http" in any letter case
HasScheme(url) == StartsWith(Lower(url), <<104, 116, 116, 112>>)

\* C15: extract_linkedin returns the whole matched profile URL, sub-paths and
\* query string included, changed only by stripping trailing punctuation and
\* by prefixing "https://" when it has no scheme; "linkedin.com/in/jane-doe/
\* details?x=1" gives "https://linkedin.com/in/jane-doe/details?x=1"; a text
\* without linkedin.com/in/ profile gives "Not Found".
C15_LinkedinWholeUrl ==
    fnPc = "done" =>
        /\ (fnResult = NotFound) <=> ~Search(ProfileBase, fnText).found
        /\ fnResult # NotFound =>
              \E i \in 1..Len(fnText) :
                  \/ HasScheme(fnResult) /\ WholeUrlAt(fnResult, fnText, i)
                  \/ /\ StartsWith(fnResult, HttpsScheme)
                     /\ LET url == From(fnResult, Len(HttpsScheme) + 1)
                        IN  ~HasScheme(url) /\ WholeUrlAt(url, fnText, i)
        /\ fnText = <<108, 105, 110, 107, 101, 100, 105, 110, 46, 99, 111, 109, 47, 105, 110, 47, 106, 97, 110, 101, 45, 100, 111, 101, 47, 100, 101, 116, 97, 105, 108, 115, 63, 120, 61, 49>>
              => fnResult = <<104, 116, 116, 112, 115, 58, 47, 47, 108, 105, 110, 107, 101, 100, 105, 110, 46, 99, 111, 109, 47, 105, 110, 47, 106, 97, 110, 101, 45, 100, 111, 101, 47, 100, 101, 116, 97, 105, 108, 115, 63, 120, 61, 49>>

\* a profile with sub-path, query string and trailing punctuation, no scheme
C15_Witness ==
    /\ fnPc = "done"
    /\ fnText = <<115, 101, 101, 32, 119, 119, 119, 46, 108, 105, 110, 107, 101, 100, 105, 110, 46, 99, 111, 109, 47, 105, 110, 47, 120, 37, 50, 48, 121, 63, 113, 61, 97, 44, 98, 41, 46, 32>>
    /\ fnResult = <<104, 116, 116, 112, 115, 58, 47, 47, 119, 119, 119, 46, 108, 105, 110, 107, 101, 100, 105, 110, 46, 99, 111, 109, 47, 105, 110, 47, 120, 37, 50, 48, 121, 63, 113, 61, 97, 44, 98>>

\* C16: the display form of a detected skill follows the stated rule: the
\* vocabulary casing is kept for an entry with '.' or '/' and for the acronym
\* allowlist; otherwise the entry is upper-cased only if it has at most 4
\* characters and is all-uppercase in the vocabulary; every other entry, an
\* entry of at most 4 characters that is not all-uppercase included, is
\* title-cased.
C16_DisplayFormRule ==
    fnPc = "done" =>
        \A k \in 1..Len(SKILLS_DB) :
            LET skill == SKILLS_DB[k]
                stated == IF HasChar(skill, 46) \/ HasChar(skill, 47)
                             \/ Upper(skill) \in KeptAcronyms
                          THEN skill
                          ELSE IF Len(skill) <= MaxUpperSkill /\ skill = Upper(skill)
                          THEN Upper(skill)
                          ELSE Title(skill)
            IN  SkillOccurs(skill, Lower(fnText)) => stated \in Range(fnResult)

---------------------------------------------------------------------------
\* C17: clean_text returns the text that the six stated steps give: characters
\* outside tab, LF, CR, printable ASCII and the code points from U+00A0 on
\* become a space (every character from U+00A0 on is kept); CR LF and CR become
\* LF; 3 or more newlines become 2; trailing whitespace of every line goes
\* (leading whitespace of a line stays); repeated blank lines become one; the
\* whole text is stripped.
C17_CleanFollowsSixSteps ==
    LET t1 == [i \in 1..Len(ctText) |->
                  IF ctText[i] \in {TAB, LF, CR} \/ (ctText[i] >= SPACE /\ ctText[i] <= 126)
                     \/ ctText[i] >= 160
                  THEN ctText[i] ELSE SPACE]
        t2 == NormalizeLineEndings(t1)
        t3 == CollapseNewlines(t2)
        t4 == MapSeq(Split(t3, LF), LAMBDA line : RStrip(line, Whitespace))
        t5 == DropRepeatedBlank(t4)
        t6 == Strip(Join(t5, <<LF>>))
    IN  ctPc # "start" => ctCleaned = t6

---------------------------------------------------------------------------
\* extract_education, extract_experience and extract_projects called on a text

MaxEduLines == 3

\* the lines a text is made of
EduLines ==
    {
      <<69, 100, 117, 99, 97, 116, 105, 111, 110>>,  \* Education
      <<69, 120, 112, 101, 114, 105, 101, 110, 99, 101>>,  \* Experience
      <<66, 46, 84, 101, 99, 104, 32, 105, 110, 32, 67, 83>>,  \* B.Tech in CS
      <<>>,  \* 
      <<77, 73, 84, 32, 50, 48, 50, 48>>,  \* MIT 2020
      <<80, 114, 111, 106, 101, 99, 116, 115>>,  \* Projects
      <<68, 105, 112, 108, 111, 109, 97, 32, 105, 110, 32, 65, 114, 116, 115, 32, 32>>  \* Diploma in Arts  
    }

\* fnArg names the function that is called
InitEducation ==
    /\ fnPc = "start"
    /\ fnText \in {Join(ls, <<LF>>) : ls \in SeqsUpTo(EduLines, MaxEduLines)}
    /\ fnArg \in {<<"education">>, <<"experience">>, <<"projects">>}
    /\ fnResult = <<>>
    /\ AllOff

CallEducation ==
    /\ fnPc = "start"
    /\ fnArg = <<"education">>
    /\ fnResult' = extract_education(fnText)
    /\ fnPc' = "done"
    /\ UNCHANGED <<fnText, fnArg>>
    /\ UNCHANGED <<varsClean, varsPhone, varsName, varsSection, varsParse, varsShared, varsUpload>>

CallExperience ==
    /\ fnPc = "start"
    /\ fnArg = <<"experience">>
    /\ fnResult' = extract_experience(fnText)
    /\ fnPc' = "done"
    /\ UNCHANGED <<fnText, fnArg>>
    /\ UNCHANGED <<varsClean, varsPhone, varsName, varsSection, varsParse, varsShared, varsUpload>>

CallProjects ==
    /\ fnPc = "start"
    /\ fnArg = <<"projects">>
    /\ fnResult' = extract_projects(fnText)
    /\ fnPc' = "done"
    /\ UNCHANGED <<fnText, fnArg>>
    /\ UNCHANGED <<varsClean, varsPhone, varsName, varsSection, varsParse, varsShared, varsUpload>>

NextEducation == CallEducation \/ CallExperience \/ CallProjects

SpecEducation == InitEducation /\ [][NextEducation]_vars

\* some line of the text is a header of the section
HasHeader(text, section_keywords) ==
    LET lines == Split(text, LF)
    IN  \E i \in 1..Len(lines) : IsSectionHeader(lines[i], section_keywords)

\* C18: the degree-pattern fallback of extract_education is applied exactly
\* when no education header is found in the text: with a header line the
\* result is what the section scan produced (the content, or "Not Found" if
\* nothing was collected) and the degree patterns are not consulted;
\* extract_experience and extract_projects never use a fallback.
C18_FallbackOnlyWithoutHeader ==
    fnPc = "done" =>
        /\ fnArg = <<"education">> =>
              IF HasHeader(fnText, EducationKeywords)
              THEN fnResult = _extract_section(fnText, EducationKeywords)
              ELSE fnResult = (IF DegreeLines(fnText) # <<>>
                               THEN Join(DegreeLines(fnText), <<LF>>) ELSE NotFound)
        /\ fnArg = <<"experience">> => fnResult = _extract_section(fnText, ExperienceKeywords)
        /\ fnArg = <<"projects">> => fnResult = _extract_section(fnText, ProjectsKeywords)

---------------------------------------------------------------------------
\* C19: in every state of the _extract_section scan the collected output has at
\* most 40 lines, each a trimmed non-blank line that comes after the header
\* line that opened the section, in the order of the text (the header line is
\* not in the output); the scan does not go on once 40 lines are collected or
\* 3 blank lines in a row are seen; without a line that holds a target keyword
\* and is shorter than 80 characters the result is "Not Found".
C19_SectionScanBounds ==
    LET h == HeaderIndex
    IN  /\ Len(section_content) <= MaxSectionLines
        /\ h = 0 => section_content = <<>>
        /\ h # 0 => \E e \in h..Max(h, secIdx - 1) :
                        section_content = TrimmedLines(h + 1, e)
        /\ (Len(section_content) >= MaxSectionLines \/ empty_line_count >= MaxBlankLines)
              => secPc # "scan"
        /\ (secPc = "done" /\ h = 0) => secResult = NotFound
        /\ (secPc = "done" /\ secKeywords = ExperienceKeywords
              /\ secLines = <<WideLine, <<68, 105, 100, 32, 88>>>>) => secResult = NotFound

\* "Experience" and 41 lines "Did X": 40 of them are collected and the scan is
\* over with a line left
C19_Witness ==
    /\ secPc = "done"
    /\ secLines = <<<<69, 120, 112, 101, 114, 105, 101, 110, 99, 101>>>> \o Copies(<<68, 105, 100, 32, 88>>, MaxSectionLines + 1)
    /\ secKeywords = ExperienceKeywords
    /\ Len(section_content) = MaxSectionLines
    /\ secIdx = MaxSectionLines + 2

---------------------------------------------------------------------------
\* parse_resume invocations running at the same time (one per session thread),
\* interleaved statement by statement. They share the module's globals SKILLS_DB
\* and nlp; everything else is local to an invocation.

MaxInvocations == 2

Invocation == 1..MaxInvocations

\* the page texts of the files
SharedTexts ==
    {
      <<74, 97, 110, 101, 32, 68, 111, 101, 10, 112, 121, 116, 104, 111, 110, 32, 115, 113, 108>>,  \* Jane Doe\npython sql
      <<>>,  \* 
      <<71, 111, 32, 100, 101, 118, 10, 98, 111, 98, 64, 120, 46, 105, 111>>  \* Go dev\nbob@x.io
    }

SharedFiles ==
    {[kind |-> "pdf", pages |-> <<t>>, paragraphs |-> <<>>, tables |-> <<>>] : t \in SharedTexts}

\* the job descriptions
SharedJobs ==
    {
      <<>>,  \* 
      <<80, 121, 116, 104, 111, 110, 32, 97, 110, 100, 32, 71, 111>>  \* Python and Go
    }

\* the calls made: the file with "Go dev" comes without job description, the
\* other two with one
SharedCalls ==
    {c \in SharedFiles \X SharedJobs : c[2] = <<>> <=> c[1].pages[1] = <<71, 111, 32, 100, 101, 118, 10, 98, 111, 98, 64, 120, 46, 105, 111>>}

\* an invocation that has been called with a file and a job description
Called(file, job) ==
    [pc |-> "start", file |-> file, job |-> job, raw_text |-> <<>>, cleaned_text |-> <<>>,
     skills |-> <<>>, match |-> NoSkillMatch, parsed |-> <<>>, error |-> <<>>]

InitShared ==
    /\ invocations \in {[i \in Invocation |-> Called(a[i][1], a[i][2])] :
                           a \in [Invocation -> SharedCalls]}
    /\ sharedSkillsDb = SKILLS_DB
    /\ sharedNlp \in ParseRecognizers
    /\ OffClean
    /\ OffPhone
    /\ OffName
    /\ OffSection
    /\ OffParse
    /\ OffCall
    /\ OffUpload

\* raw_text = extract_text_from_pdf(file_path)
ReadFile(i) ==
    /\ invocations[i].pc = "start"
    /\ LET res == extract_text_from_pdf(invocations[i].file, TRUE)
       IN  invocations' = [invocations EXCEPT ![i].pc = "check", ![i].raw_text = res.text]
    /\ UNCHANGED <<sharedSkillsDb, sharedNlp>>
    /\ UNCHANGED <<varsClean, varsPhone, varsName, varsSection, varsParse, varsCall, varsUpload>>

\* if not raw_text.strip(): raise
CheckRawText(i) ==
    /\ invocations[i].pc = "check"
    /\ invocations' =
          IF Strip(invocations[i].raw_text) = <<>>
          THEN [invocations EXCEPT ![i].pc = "raised",
                   ![i].error = Raised("ValueError", "Could not extract any text")]
          ELSE [invocations EXCEPT ![i].pc = "clean"]
    /\ UNCHANGED <<sharedSkillsDb, sharedNlp>>
    /\ UNCHANGED <<varsClean, varsPhone, varsName, varsSection, varsParse, varsCall, varsUpload>>

\* cleaned_text = clean_text(raw_text)
CleanRawText(i) ==
    /\ invocations[i].pc = "clean"
    /\ invocations' = [invocations EXCEPT ![i].pc = "skills",
                          ![i].cleaned_text = clean_text(invocations[i].raw_text)]
    /\ UNCHANGED <<sharedSkillsDb, sharedNlp>>
    /\ UNCHANGED <<varsClean, varsPhone, varsName, varsSection, varsParse, varsCall, varsUpload>>

\* skills = extract_skills(cleaned_text)
FindSkills(i) ==
    /\ invocations[i].pc = "skills"
    /\ invocations' = [invocations EXCEPT ![i].pc = "match",
                          ![i].skills = SkillsAmong(sharedSkillsDb, invocations[i].cleaned_text)]
    /\ sharedSkillsDb' = AfterLoop(sharedSkillsDb)
    /\ UNCHANGED sharedNlp
    /\ UNCHANGED <<varsClean, varsPhone, varsName, varsSection, varsParse, varsCall, varsUpload>>

\* match_pct, matched_skills, missing_skills = calculate_skill_match(skills,
\* job_description)
MatchSkills(i) ==
    /\ invocations[i].pc = "match"
    /\ invocations' = [invocations EXCEPT ![i].pc = "fields",
                          ![i].match = SkillMatchAmong(sharedSkillsDb, invocations[i].skills,
                                                       invocations[i].job)]
    /\ sharedSkillsDb' =
          IF NothingToMatch(invocations[i].skills, invocations[i].job)
          THEN sharedSkillsDb ELSE AfterLoop(sharedSkillsDb)
    /\ UNCHANGED sharedNlp
    /\ UNCHANGED <<varsClean, varsPhone, varsName, varsSection, varsParse, varsCall, varsUpload>>

\* parsed = {...}; return parsed
BuildParsed(i) ==
    /\ invocations[i].pc = "fields"
    /\ LET v == invocations[i]
       IN  invocations' = [invocations EXCEPT ![i].pc = "returned",
                              ![i].parsed = ParsedFrom(v.cleaned_text, v.skills, v.match,
                                                       DocOf(sharedNlp, v.cleaned_text))]
    /\ UNCHANGED <<sharedSkillsDb, sharedNlp>>
    /\ UNCHANGED <<varsClean, varsPhone, varsName, varsSection, varsParse, varsCall, varsUpload>>

NextShared ==
    \E i \in Invocation :
        \/ ReadFile(i)
        \/ CheckRawText(i)
        \/ CleanRawText(i)
        \/ FindSkills(i)
        \/ MatchSkills(i)
        \/ BuildParsed(i)

SpecShared == InitShared /\ [][NextShared]_vars

\* what parse_resume gives for the file and the job description when it runs
\* alone, with the globals as the module initialised them
Alone(file, job, recognizer) ==
    LET raw_text == extract_text_from_pdf(file, TRUE).text
        cleaned_text == clean_text(raw_text)
    IN  IF Strip(raw_text) = <<>>
        THEN [pc |-> "raised", parsed |-> <<>>]
        ELSE [pc |-> "returned", parsed |-> Parsed(cleaned_text, job, DocOf(recognizer, cleaned_text))]

\* C20: in every step of every interleaving of the invocations, the skills
\* vocabulary and the recognizer reference stay as they are, and an invocation
\* that ends returns the record (or fails as) it does when run alone on the
\* same file text and job description; what an invocation returned is not
\* changed afterwards.
C20_InvocationsIndependent ==
    [][/\ sharedSkillsDb' = sharedSkillsDb
       /\ sharedNlp' = sharedNlp
       /\ \A i \in Invocation :
             LET v == invocations[i]
                 w == invocations'[i]
             IN  /\ v.pc \in {"returned", "raised"} => w = v
                 /\ (v.pc \notin {"returned", "raised"} /\ w.pc \in {"returned", "raised"}) =>
                       LET alone == Alone(w.file, w.job, sharedNlp)
                       IN  w.pc = alone.pc /\ w.parsed = alone.parsed]_vars

\* two invocations on different files have both returned, each with the skills
\* of its own text, after running interleaved
C20_Witness ==
    /\ invocations[1].pc = "returned"
    /\ invocations[2].pc = "returned"
    /\ invocations[1].file.pages = <<<<74, 97, 110, 101, 32, 68, 111, 101, 10, 112, 121, 116, 104, 111, 110, 32, 115, 113, 108>>>>
    /\ invocations[2].file.pages = <<<<71, 111, 32, 100, 101, 118, 10, 98, 111, 98, 64, 120, 46, 105, 111>>>>
    /\ invocations[1].job # <<>>
    /\ invocations[2].job = <<>>
    /\ invocations[1].parsed.skills = <<<<80, 121, 116, 104, 111, 110>>, <<115, 113, 108>>>>
    /\ invocations[2].parsed.skills = <<<<71, 79>>>>
    /\ invocations[1].parsed.skill_match.matched_skills = <<<<80, 121, 116, 104, 111, 110>>>>
    /\ invocations[1].parsed.skill_match.missing_skills = <<<<71, 79>>>>
    /\ invocations[2].parsed.skill_match.total_jd_skills = 0

---------------------------------------------------------------------------
\* app.py: allowed_file and the path of the temporary file

\* {"pdf", "docx", "doc"}
ALLOWED_EXTENSIONS ==
    {
      <<112, 100, 102>>,  \* pdf
      <<100, 111, 99, 120>>,  \* docx
      <<100, 111, 99>>  \* doc
    }

\* the index of the last '.' of the name, 0 if it has none
LastDot(filename) == Greatest({i \in 1..Len(filename) : filename[i] = 46} \cup {0})

\* "." in filename and filename.rsplit(".", 1)[1].lower() in ALLOWED_EXTENSIONS
allowed_file(filename) ==
    /\ HasChar(filename, 46)
    /\ Lower(From(filename, LastDot(filename) + 1)) \in ALLOWED_EXTENSIONS

\* the characters werkzeug's secure_filename keeps: [A-Za-z0-9_.-]
IsFilenameChar(c) == IsAsciiUpper(c) \/ IsAsciiLower(c) \/ IsDigit(c) \/ c \in {95, 46, 45}

\* werkzeug.utils.secure_filename for an ASCII name on a POSIX system: '/'
\* becomes a space, the words are joined by '_', every character outside
\* [A-Za-z0-9_.-] is dropped, and '.' and '_' are stripped from both ends
secure_filename(filename) ==
    LET spaced == [i \in 1..Len(filename) |-> IF filename[i] = 47 THEN SPACE ELSE filename[i]]
        joined == Join(SplitWords(spaced), <<95>>)
        kept == SelectSeq(joined, IsFilenameChar)
        inner == {i \in 1..Len(kept) : kept[i] \notin {46, 95}}
    IN  IF inner = {} THEN <<>> ELSE SubSeq(kept, Least(inner), Greatest(inner))

\* os.path.splitext(filename)[1] for a name without directory: from the last
\* '.' on, unless that '.' is preceded by dots only
SplitExt(filename) ==
    LET dot == LastDot(filename)
    IN  IF dot = 0 \/ (\A i \in 1..dot : filename[i] = 46) THEN <<>>
        ELSE From(filename, dot)

\* the file at a path that holds nothing
NoFile == [kind |-> "missing", pages |-> <<>>, paragraphs |-> <<>>, tables |-> <<>>]

\* the file that open(path) finds in the upload folder
FileAt(folder, path) ==
    IF \E f \in folder : f.path = path
    THEN (CHOOSE f \in folder : f.path = path).file
    ELSE NoFile

\* os.path.exists(path)
Exists(folder, path) == \E f \in folder : f.path = path

\* the folder after file.save(path): the file is created or overwritten
AfterSave(folder, path, file) ==
    {f \in folder : f.path # path} \cup {[path |-> path, file |-> file]}

\* the folder after os.remove(path)
AfterRemove(folder, path) == {f \in folder : f.path # path}

\* parse_resume called on the file found at the path: the record, or the
\* exception raised
parse_resume(file, file_extension, job_description, PdfReader, Document, nlp) ==
    LET reader == ReaderFor(file_extension)
        res == IF reader = "pdf" THEN extract_text_from_pdf(file, PdfReader)
               ELSE extract_text_from_docx(file, Document)
    IN  IF reader = "unsupported" THEN Raised("ValueError", "Unsupported file format")
        ELSE IF ~res.ok THEN res
        ELSE IF Strip(res.text) = <<>> THEN Raised("ValueError", "Could not extract any text")
        ELSE [ok |-> TRUE,
              parsed |-> Parsed(clean_text(res.text), job_description,
                                DocOf(nlp, clean_text(res.text)))]

---------------------------------------------------------------------------
\* app.py: upload_resume. A handler is the call of upload_resume for one
\* request; form is what the request posted, libs the reader libraries the
\* process has loaded, response what the handler gave back: "redirect" (to the
\* index page, with a message), "result" (the result page) or "error" (an
\* exception left the handler).

\* "uploads/"
UPLOAD_FOLDER == <<117, 112, 108, 111, 97, 100, 115, 47>>

\* the requests posted
UploadForms ==
    {
      \* no file part
      [has_part |-> FALSE, filename |-> <<>>, file |-> NoFile],
      \* no file selected
      [has_part |-> TRUE, filename |-> <<>>, file |-> NoFile],
      \* "notes.txt"
      [has_part |-> TRUE, filename |-> <<110, 111, 116, 101, 115, 46, 116, 120, 116>>, file |-> [kind |-> "pdf", pages |-> <<<<74, 97, 110, 101, 32, 68, 111, 101, 10, 112, 121, 116, 104, 111, 110, 32, 115, 113, 108>>>>, paragraphs |-> <<>>, tables |-> <<>>]],
      \* "cv.pdf", a PDF with text
      [has_part |-> TRUE, filename |-> <<99, 118, 46, 112, 100, 102>>, file |-> [kind |-> "pdf", pages |-> <<<<74, 97, 110, 101, 32, 68, 111, 101, 10, 112, 121, 116, 104, 111, 110, 32, 115, 113, 108>>>>, paragraphs |-> <<>>, tables |-> <<>>]],
      \* "my cv.PDF", a PDF without text
      [has_part |-> TRUE, filename |-> <<109, 121, 32, 99, 118, 46, 80, 68, 70>>, file |-> [kind |-> "pdf", pages |-> <<>>, paragraphs |-> <<>>, tables |-> <<>>]],
      \* "cv.docx", a Word document
      [has_part |-> TRUE, filename |-> <<99, 118, 46, 100, 111, 99, 120>>, file |-> [kind |-> "docx", pages |-> <<>>, paragraphs |-> <<<<66, 111, 98, 32, 82, 97, 121>>, <<103, 111, 32, 100, 111, 99, 107, 101, 114>>>>, tables |-> <<>>]],
      \* ".pdf", a PDF with text
      [has_part |-> TRUE, filename |-> <<46, 112, 100, 102>>, file |-> [kind |-> "pdf", pages |-> <<<<74, 97, 110, 101, 32, 68, 111, 101, 10, 112, 121, 116, 104, 111, 110, 32, 115, 113, 108>>>>, paragraphs |-> <<>>, tables |-> <<>>]],
      \* "cv.doc", not a document
      [has_part |-> TRUE, filename |-> <<99, 118, 46, 100, 111, 99>>, file |-> CorruptFile]
    }

\* request.form.get("job_description", ""), before .strip()
UploadJobs ==
    {
      <<>>,  \* 
      <<32, 80, 121, 116, 104, 111, 110, 32, 97, 110, 100, 32, 71, 111, 32>>  \*  Python and Go 
    }

\* a handler that has just been called
Handling(form, job, libs) ==
    [pc |-> "validate", form |-> form, job_description |-> Strip(job), libs |-> libs,
     filename |-> <<>>, file_ext |-> <<>>, temp_path |-> <<>>,
     read |-> NoFile, result |-> Raised("None", "None"), resume_id |-> 0,
     response |-> "none"]

\* the three tests that end the request before anything is saved
Rejected(form) ==
    \/ ~form.has_part
    \/ form.filename = <<>>
    \/ ~allowed_file(form.filename)

\* the handler cleans up on success only
RemoveOnSuccess(result, exists) == exists /\ result.ok

\* finally: if os.path.exists(temp_path): os.remove(temp_path)
RemoveNeeded(result, exists) == exists

\* the handler goes on to save_to_db whatever parse_resume did
AfterFinallyInsert(result) == "insert"

\* after the finally block: the except clauses have returned the redirect,
\* otherwise the handler goes on to save_to_db
AfterFinally(result) == IF result.ok THEN "insert" ELSE "redirect"

\* the handler after the finally block
Leave(handler) ==
    LET next == AfterFinally(handler.result)
    IN  IF next = "insert" THEN [handler EXCEPT !.pc = "insert"]
        ELSE [handler EXCEPT !.pc = "done", !.response = "redirect"]

InitUpload ==
    /\ handlers \in {<<Handling(f, j, [PdfReader |-> p, Document |-> TRUE, nlp |-> n])>> :
                        f \in UploadForms, j \in UploadJobs, p \in BOOLEAN,
                        n \in ParseRecognizers}
    /\ uploads = {}
    /\ resumes = <<>>
    /\ sqlite_sequence = 0
    /\ AllOffButUpload

\* lines 166-188: the request is turned away, or the path of the file is set
Validate(h) ==
    /\ handlers[h].pc = "validate"
    /\ LET form == handlers[h].form
           filename == secure_filename(form.filename)
       IN  handlers' =
              IF Rejected(form)
              THEN [handlers EXCEPT ![h].pc = "done", ![h].response = "redirect"]
              ELSE [handlers EXCEPT ![h].pc = "save",
                                    ![h].filename = filename,
                                    ![h].file_ext = Lower(SplitExt(filename)),
                                    ![h].temp_path = UPLOAD_FOLDER \o filename]
    /\ UNCHANGED <<uploads, resumes, sqlite_sequence>>
    /\ UNCHANGED <<varsClean, varsPhone, varsName, varsSection, varsParse, varsCall, varsShared>>

\* file.save(temp_path)
SaveFile(h) ==
    /\ handlers[h].pc = "save"
    /\ uploads' = AfterSave(uploads, handlers[h].temp_path, handlers[h].form.file)
    /\ handlers' = [handlers EXCEPT ![h].pc = "parse"]
    /\ UNCHANGED <<resumes, sqlite_sequence>>
    /\ UNCHANGED <<varsClean, varsPhone, varsName, varsSection, varsParse, varsCall, varsShared>>

\* parsed_data = parse_resume(temp_path, file_ext, job_description), and the
\* except clauses
ParseFile(h) ==
    /\ handlers[h].pc = "parse"
    /\ LET v == handlers[h]
           file == FileAt(uploads, v.temp_path)
       IN  handlers' = [handlers EXCEPT
                ![h].pc = "finally",
                ![h].read = file,
                ![h].result = parse_resume(file, v.file_ext, v.job_description,
                                           v.libs.PdfReader, v.libs.Document, v.libs.nlp)]
    /\ UNCHANGED <<uploads, resumes, sqlite_sequence>>
    /\ UNCHANGED <<varsClean, varsPhone, varsName, varsSection, varsParse, varsCall, varsShared>>

\* finally: if os.path.exists(temp_path)
CheckExists(h) ==
    /\ handlers[h].pc = "finally"
    /\ handlers' =
          IF RemoveNeeded(handlers[h].result, Exists(uploads, handlers[h].temp_path))
          THEN [handlers EXCEPT ![h].pc = "remove"]
          ELSE [handlers EXCEPT ![h] = Leave(handlers[h])]
    /\ UNCHANGED <<uploads, resumes, sqlite_sequence>>
    /\ UNCHANGED <<varsClean, varsPhone, varsName, varsSection, varsParse, varsCall, varsShared>>

\* os.remove(temp_path): FileNotFoundError if the file is gone by now
RemoveFile(h) ==
    /\ handlers[h].pc = "remove"
    /\ IF Exists(uploads, handlers[h].temp_path)
       THEN /\ uploads' = AfterRemove(uploads, handlers[h].temp_path)
            /\ handlers' = [handlers EXCEPT ![h] = Leave(handlers[h])]
       ELSE /\ uploads' = uploads
            /\ handlers' = [handlers EXCEPT ![h].pc = "done", ![h].response = "error"]
    /\ UNCHANGED <<resumes, sqlite_sequence>>
    /\ UNCHANGED <<varsClean, varsPhone, varsName, varsSection, varsParse, varsCall, varsShared>>

\* id INTEGER PRIMARY KEY AUTOINCREMENT: the id of a new row is one more than
\* the largest the table has given; the id of a deleted row is not given again
NextRowId(sequence) == sequence + 1

\* resume_id = save_to_db(parsed_data, filename); return render_template(...)
SaveToDb(h) ==
    /\ handlers[h].pc = "insert"
    /\ sqlite_sequence' = NextRowId(sqlite_sequence)
    /\ resumes' = Append(resumes, [id |-> sqlite_sequence',
                                   filename |-> handlers[h].filename,
                                   parsed |-> handlers[h].result.parsed])
    /\ handlers' = [handlers EXCEPT ![h].pc = "done", ![h].resume_id = sqlite_sequence',
                                    ![h].response = "result"]
    /\ UNCHANGED uploads
    /\ UNCHANGED <<varsClean, varsPhone, varsName, varsSection, varsParse, varsCall, varsShared>>

\* the table after DELETE FROM resumes WHERE id = ?
AfterDelete(rows, resume_id) == SelectSeq(rows, LAMBDA row : row.id # resume_id)

\* delete_resume, POST /delete/<resume_id>: the row of the id is deleted; the
\* ids are those the table has given, a request for any other id deletes
\* nothing
delete_resume(resume_id) ==
    /\ resumes' = AfterDelete(resumes, resume_id)
    /\ UNCHANGED <<handlers, uploads, sqlite_sequence>>
    /\ UNCHANGED <<varsClean, varsPhone, varsName, varsSection, varsParse, varsCall, varsShared>>

NextUpload ==
    \/ \E h \in DOMAIN handlers :
          \/ Validate(h)
          \/ SaveFile(h)
          \/ ParseFile(h)
          \/ CheckExists(h)
          \/ RemoveFile(h)
          \/ SaveToDb(h)
    \/ \E resume_id \in 1..sqlite_sequence : delete_resume(resume_id)

SpecUpload == InitUpload /\ [][NextUpload]_vars

\* the handler has saved the uploaded file
HasSaved(handler) == handler.pc \in {"parse", "finally", "remove", "insert"}
                         \/ (handler.pc = "done" /\ ~Rejected(handler.form))

\* C21: on every path after the uploaded file has been saved (parse_resume
\* returned, raised ValueError, or raised another exception) the temporary
\* file at the upload path does not exist when the handler has returned.
C21_TempFileRemoved ==
    \A h \in DOMAIN handlers :
        (handlers[h].pc = "done" /\ HasSaved(handlers[h]))
            => ~Exists(uploads, handlers[h].temp_path)

\* the PDF without text was saved as "uploads/my_cv.PDF", parse_resume raised
\* ValueError, the handler has redirected and the file is gone
C21_Witness ==
    /\ handlers[1].pc = "done"
    /\ handlers[1].temp_path = <<117, 112, 108, 111, 97, 100, 115, 47, 109, 121, 95, 99, 118, 46, 80, 68, 70>>
    /\ handlers[1].result = Raised("ValueError", "Could not extract any text")
    /\ handlers[1].response = "redirect"
    /\ uploads = {}

\* the handlers that have given back the result page
Rendered == {h \in DOMAIN handlers : handlers[h].pc = "done" /\ handlers[h].response = "result"}

\* C22: a row is inserted into resumes only if the file passed validation and
\* parse_resume returned a record, and only after the temporary file was
\* deleted; every validation failure and every parse error ends the request
\* with a redirect and no row.
C22_RowOnlyAfterParse ==
    /\ sqlite_sequence = Cardinality(Rendered)
    /\ \A k \in 1..Len(resumes) :
          \E h \in Rendered :
              /\ handlers[h].resume_id = resumes[k].id
              /\ resumes[k].filename = secure_filename(handlers[h].form.filename)
              /\ resumes[k].parsed = handlers[h].result.parsed
    /\ \A h \in DOMAIN handlers :
          LET v == handlers[h]
          IN  /\ (v.pc = "insert" \/ h \in Rendered) =>
                    /\ ~Rejected(v.form)
                    /\ v.result.ok
                    /\ ~Exists(uploads, v.temp_path)
              /\ h \in Rendered => v.resume_id \in 1..sqlite_sequence
              /\ (v.pc = "done" /\ (Rejected(v.form) \/ ~v.result.ok)) =>
                    /\ v.response = "redirect"
                    /\ v.resume_id = 0
                    /\ sqlite_sequence = 0
                    /\ resumes = <<>>

\* the Word document was parsed, its file is gone and its row is in the table
C22_Witness ==
    /\ handlers[1].pc = "done"
    /\ handlers[1].response = "result"
    /\ uploads = {}
    /\ Len(resumes) = 1
    /\ resumes[1].id = handlers[1].resume_id
    /\ resumes[1].filename = <<99, 118, 46, 100, 111, 99, 120>>
    /\ resumes[1].parsed.name = <<66, 111, 98, 32, 82, 97, 121>>
    /\ resumes[1].parsed.skills = <<<<68, 111, 99, 107, 101, 114>>, <<71, 79>>>>

---------------------------------------------------------------------------
\* upload_resume handling several requests at the same time (the server runs
\* one thread per request); the handlers share the upload folder and the table

MaxHandlers == 2

\* the requests posted at the same time: the first two have different names
\* that secure_filename makes equal
ConcurrentForms ==
    {
      \* "my cv.pdf", the resume of Jane Doe
      [has_part |-> TRUE, filename |-> <<109, 121, 32, 99, 118, 46, 112, 100, 102>>, file |-> [kind |-> "pdf", pages |-> <<<<74, 97, 110, 101, 32, 68, 111, 101, 10, 112, 121, 116, 104, 111, 110, 32, 115, 113, 108>>>>, paragraphs |-> <<>>, tables |-> <<>>]],
      \* "my_cv.pdf", the resume of Bob Ray
      [has_part |-> TRUE, filename |-> <<109, 121, 95, 99, 118, 46, 112, 100, 102>>, file |-> [kind |-> "pdf", pages |-> <<<<66, 111, 98, 32, 82, 97, 121, 10, 103, 111, 32, 100, 111, 99, 107, 101, 114>>>>, paragraphs |-> <<>>, tables |-> <<>>]],
      \* "cv.pdf", the resume of Ann Lee
      [has_part |-> TRUE, filename |-> <<99, 118, 46, 112, 100, 102>>, file |-> [kind |-> "pdf", pages |-> <<<<65, 110, 110, 32, 76, 101, 101, 10, 114, 117, 115, 116>>>>, paragraphs |-> <<>>, tables |-> <<>>]]
    }

InitUploads ==
    /\ \E n \in ParseRecognizers :
          handlers \in [1..MaxHandlers ->
                          {Handling(f, <<>>, [PdfReader |-> TRUE, Document |-> TRUE, nlp |-> n]) :
                              f \in ConcurrentForms}]
    /\ uploads = {}
    /\ resumes = <<>>
    /\ sqlite_sequence = 0
    /\ AllOffButUpload

SpecUploads == InitUploads /\ [][NextUpload]_vars

\* C23: for any two upload requests handled at the same time, two with equal
\* sanitized filenames included, the file a request parses is the file that
\* request saved, and that file is at its path from the request's save until
\* its parse has finished.
C23_ParsesOwnFile ==
    \A h \in DOMAIN handlers :
        LET v == handlers[h]
        IN  /\ v.pc = "parse" => FileAt(uploads, v.temp_path) = v.form.file
            /\ v.pc \in {"finally", "remove", "insert"} => v.read = v.form.file
            /\ (v.pc = "done" /\ ~Rejected(v.form)) => v.read = v.form.file

=============================================================================
